---- MODULE Spec2Model ----
(***************************************************************************)
(* Verification model of the heuristic best-first search core of the       *)
(* planner: EagerSearch (search_engines/eager_search.cc), the bucketed     *)
(* BestFirstOpenList (open_lists/best_first_open_list.cc) and the          *)
(* WeightedEvaluator (evaluators/weighted_evaluator.cc).                   *)
(*                                                                         *)
(* One action models one whole handler: Initialize is                      *)
(* EagerSearch::initialize, Step is one call of EagerSearch::step (the     *)
(* pop loop and the expansion of the selected node).  What a step did on   *)
(* the way (entries popped, node operations applied, operators pruned) is  *)
(* recorded in the event variables, which the step rewrites each time.     *)
(***************************************************************************)
EXTENDS Integers, Sequences, FiniteSets, TLC

INT_MAX == 2147483647
INT_MIN == -INT_MAX - 1
\* EvaluationResult::INFTY, the distinguished "infinite" evaluator value.
INFTY == INT_MAX
\* Heuristic cache entry of a state that was never evaluated.
NO_VALUE == -1
\* StateID::no_state and OperatorID::no_operator.
no_state == -1
no_operator == -1

(***************************************************************************)
(* The task oracle.  States are interned ids; the initial state has id 0.  *)
(* An operator is applicable in exactly one state (OpSrc) and leads to     *)
(* OpDst; a task owns a subset of the operators and gives each a cost.     *)
(***************************************************************************)
States == 0 .. 5
initial_state == 0
AllOps == 1 .. 9
OpSrc == <<0, 0, 1, 2, 3, 4, 1, 4, 2>>
OpDst == <<1, 3, 2, 4, 4, 5, 4, 0, 5>>

\* The tasks the search is run on: which operators exist, their costs, the goal.
OpSets == { {1, 2, 3, 4, 5, 6}, {1, 2, 3, 4, 5, 6, 9}, {1, 2, 3, 4, 5, 6, 7, 8, 9},
            {1, 3, 4, 6, 8} }
CostProfiles ==
    { <<1, 1, 1, 1, 0, 3, 3, 0, 3>>,
      <<1, 2, 0, 0, 2, 2, 3, 0, 1>>,
      <<1, 1, 1, 0, 0, 0, 1, 0, 0>> }
GoalSets == { {5}, {4}, {0, 5}, {} }
Tasks == [ops : OpSets, cost : CostProfiles, goal : GoalSets]

\* Heuristic estimates: first evaluation of a state (H0) and the value a
\* re-evaluation yields once the estimate has gone stale (H1).
H0Profiles ==
    { <<0, 0, 0, 0, 0, 0>>,
      <<0, 0, 0, 3, 0, 0>>,
      <<0, 0, 0, 3, 1, 0>>,
      <<0, 0, INFTY, 0, 0, 0>>,
      <<0, INFTY, 0, 0, 0, 0>>,
      <<INFTY, 0, 0, 0, 0, 0>> }
Restale(h, s, v) == [h EXCEPT ![s + 1] = v]
H1Profiles(h) ==
    {h} \cup { Restale(h, s, INFTY) : s \in {0, 3, 4} }
        \cup { Restale(h, s, h[s + 1] + 1) : s \in {x \in {2, 4} : h[x + 1] # INFTY} }

CostTypes == {"NORMAL", "ONE", "PLUSONE"}
Bounds == {0, 5, INT_MAX}
PreferredSets == { {1, 4, 6}, {2, 5, 6}, {1, 3, 9} }
PrunedSets == { {}, {2}, {4}, {6} }

\* The evaluator objects an engine can be built from.  Evaluators 1 and 2 are
\* path-dependent heuristics, 4 is a heuristic that is not, 3 = weight(1),
\* 5 = weight(3).  no_evaluator stands for a null pointer.
no_evaluator == 0
Evaluators == 1 .. 5
WeightedChild == <<no_evaluator, no_evaluator, 1, no_evaluator, 3>>
PathDependent == {1, 2}
\* Which evaluator the open list, the preferred-operator evaluators, the
\* f_evaluator and the lazy_evaluator are.
EvaluatorSharing(lazy) ==
    [open_list |-> 5, preferred |-> << >>, f_evaluator |-> 3,
     lazy_evaluator |-> IF lazy THEN 1 ELSE no_evaluator]
EvaluatorChoices(lazy) ==
    { [open_list |-> 4, preferred |-> <<1, 2, 1>>, f_evaluator |-> no_evaluator,
       lazy_evaluator |-> IF lazy THEN 4 ELSE no_evaluator],
      [open_list |-> 3, preferred |-> <<2, 5>>, f_evaluator |-> 5,
       lazy_evaluator |-> IF lazy THEN 2 ELSE no_evaluator] }
EvaluatorPlain ==
    [open_list |-> 4, preferred |-> << >>, f_evaluator |-> no_evaluator,
     lazy_evaluator |-> no_evaluator]

VARIABLES
    task,                 \* the task the engine was built for
    h0, h1,               \* the heuristic's estimates (see above)
    cost_type,            \* SearchEngine::cost_type
    bound,                \* SearchEngine::bound
    reopen_closed_nodes,  \* EagerSearch::reopen_closed_nodes
    lazy_evaluator,       \* TRUE iff a lazy_evaluator was supplied
    does_cache_estimates, \* lazy_evaluator->does_cache_estimates()
    pref_only,            \* the open list accepts preferred entries only
    preferred,            \* operators the preferred-operator evaluators report
    pruned,               \* operators the pruning method removes
    evaluators,           \* the engine's evaluator objects (see EvaluatorSharing)
    pc,                   \* "constructed", "searching", "done", or
                          \* "SEARCH_INPUT_ERROR" (the process has exited)
    eng,                  \* search space, open list, statistics (see NewEngine)
    search_status,        \* SearchStatus of the last step
    plan,                 \* the plan set by check_goal_and_set_plan
    \* A BestFirstOpenList driven on its own (SpecOpenList):
    ol,                   \* the list: [buckets, size]
    ol_shadow,            \* history: the stored <<key, entry>>, in insertion order
    ol_last,              \* history: the last operation called on the list
    ol_removed,           \* history: <<key, entry>> of the last remove_min
    \* One WeightedEvaluator::compute_result call (SpecWeighted):
    we_value,             \* the value of the child evaluator
    we_weight,            \* WeightedEvaluator::weight
    we_ndebug,            \* TRUE iff built with NDEBUG (assert compiled out)
    we_result,            \* the outcome of the call
    \* An IteratedSearch over EagerSearch phases (SpecIterated):
    engine_configs,       \* IteratedSearch::engine_configs, one record per phase
    pass_bound,           \* IteratedSearch::pass_bound
    repeat_last_phase,    \* IteratedSearch::repeat_last_phase
    continue_on_fail,     \* IteratedSearch::continue_on_fail
    continue_on_solve,    \* IteratedSearch::continue_on_solve
    it,                   \* the IteratedSearch object (see NewIteratedSearch)
    it_pc,                \* "none", "ready" (between steps), "child" (in
                          \* current_search->search())
    \* The binding of task-independent components to tasks (SpecBind):
    component_maps,       \* the ComponentMap objects made so far
    components,           \* the task-specific components constructed so far
    bindings,             \* history: every binding call and what it returned
    \* DiversePotentialHeuristics::find_functions (SpecPotentials):
    dph                   \* the factory and the locals of find_functions

config == <<task, h0, h1, cost_type, bound, reopen_closed_nodes, lazy_evaluator,
            does_cache_estimates, pref_only, preferred, pruned, evaluators>>
eager_vars == <<config, pc, eng, search_status, plan>>
ol_vars == <<ol, ol_shadow, ol_last, ol_removed>>
we_vars == <<we_value, we_weight, we_ndebug, we_result>>
it_config == <<engine_configs, pass_bound, repeat_last_phase, continue_on_fail,
               continue_on_solve>>
it_vars == <<it_config, it, it_pc>>
bind_vars == <<component_maps, components, bindings>>
dph_vars == <<dph>>
vars == <<eager_vars, ol_vars, we_vars, it_vars, bind_vars, dph_vars>>

(***************************************************************************)
(* Small helpers.                                                          *)
(***************************************************************************)
Min(S) == CHOOSE x \in S : \A y \in S : x <= y

\* Rest applied to value, with value computed once (a local variable).
Bind(value, Rest(_)) == CHOOSE r \in {Rest(x) : x \in {value}} : TRUE

(***************************************************************************)
(* The engine state after construction.  notified_initial and              *)
(* notified_transition count the calls each evaluator object has received. *)
(* The fields relinked, popped, pops, node_ops,                            *)
(* last_preferred, last_applicable, last_generated, closes and offers are  *)
(* history: they record what the code did and are read by no operation     *)
(* (last_preferred stands for the local preferred_operators of step).      *)
(***************************************************************************)
NewEngine ==
    [ status            |-> [s \in States |-> "new"],
      g                 |-> [s \in States |-> -1],
      real_g            |-> [s \in States |-> -1],
      parent_state_id   |-> [s \in States |-> no_state],
      creating_operator |-> [s \in States |-> no_operator],
      buckets           |-> << >>,     \* std::map<int, Bucket>: key -> FIFO
      size              |-> 0,
      h_cache           |-> [s \in States |-> NO_VALUE],
      expanded          |-> 0,
      generated         |-> 0,
      evaluated_states  |-> 0,
      dead_ends         |-> 0,
      reopened          |-> 0,
      path_dependent_evaluators |-> << >>,
      notified_initial    |-> [ev \in Evaluators |-> 0],  \* notify_initial_state calls
      notified_transition |-> [ev \in Evaluators |-> 0],  \* notify_state_transition calls
      relinked          |-> {},        \* "reopen", "update_parent": ever called
      popped            |-> {},        \* <<id, status when popped>>, this step
      pops              |-> << >>,     \* what was done with each pop of this step
      node_ops          |-> {},        \* <<operation, status before>>, this step
      last_preferred    |-> {},        \* preferred operators of the last expansion
      last_applicable   |-> {},        \* its applicable operators after pruning
      last_generated    |-> {},        \* those that passed the bound test
      closes            |-> [s \in States |-> 0],   \* times each state was closed
      offers            |-> [s \in States |-> {}] ] \* g values offered to each state

(***************************************************************************)
(* SearchNode operations (status transitions of one node).                 *)
(***************************************************************************)
Record(e, name, s) ==
    [e EXCEPT !.node_ops = @ \cup {<<name, e.status[s]>>}]

open_initial(e, s) ==
    [Record(e, "open_initial", s) EXCEPT
        !.status[s] = "open",
        !.g[s] = 0,
        !.real_g[s] = 0,
        !.parent_state_id[s] = no_state,
        !.creating_operator[s] = no_operator]

\* The three operations that (re)link a node below parent p through operator op.
Link(e, s, p, op, adjusted_cost) ==
    [e EXCEPT
        !.g[s] = e.g[p] + adjusted_cost,
        !.real_g[s] = e.real_g[p] + task.cost[op],
        !.parent_state_id[s] = p,
        !.creating_operator[s] = op]

open(e, s, p, op, adjusted_cost) ==
    [Link(Record(e, "open", s), s, p, op, adjusted_cost) EXCEPT
        !.status[s] = "open"]

reopen(e, s, p, op, adjusted_cost) ==
    [Link(Record(e, "reopen", s), s, p, op, adjusted_cost) EXCEPT
        !.status[s] = "open",
        !.relinked = @ \cup {"reopen"}]

update_parent(e, s, p, op, adjusted_cost) ==
    [Link(Record(e, "update_parent", s), s, p, op, adjusted_cost) EXCEPT
        !.relinked = @ \cup {"update_parent"}]

close(e, s) ==
    [Record(e, "close", s) EXCEPT
        !.status[s] = "closed",
        !.closes[s] = @ + 1]

mark_as_dead_end(e, s) ==
    [Record(e, "mark_as_dead_end", s) EXCEPT !.status[s] = "dead_end"]

(***************************************************************************)
(* BestFirstOpenList: an ordered map from key to FIFO bucket, and a size.  *)
(***************************************************************************)
\* Faulty variant of do_insertion: push_front instead of push_back.
do_insertion_push_front(e, key, entry) ==
    LET b == e.buckets
        old == IF key \in DOMAIN b THEN b[key] ELSE << >>
    IN [e EXCEPT
           !.buckets = [k \in DOMAIN b \cup {key} |->
                            IF k = key THEN <<entry>> \o old ELSE b[k]],
           !.size = @ + 1]

do_insertion(e, key, entry) ==
    LET b == e.buckets
        old == IF key \in DOMAIN b THEN b[key] ELSE << >>
    IN [e EXCEPT
           !.buckets = [k \in DOMAIN b \cup {key} |->
                            IF k = key THEN Append(old, entry) ELSE b[k]],
           !.size = @ + 1]

\* Faulty variant of remove_min: the head of the last bucket.
remove_min_last_bucket(e) ==
    LET b == e.buckets
        key == CHOOSE k \in DOMAIN b : \A j \in DOMAIN b : j <= k
        bucket == b[key]
        rest == Tail(bucket)
    IN [ result |-> Head(bucket),
         key    |-> key,
         e      |-> [e EXCEPT
                        !.buckets = IF rest = << >>
                                    THEN [k \in DOMAIN b \ {key} |-> b[k]]
                                    ELSE [b EXCEPT ![key] = rest],
                        !.size = @ - 1] ]

\* remove_min: the head of the first bucket; the bucket is erased when empty.
remove_min(e) ==
    LET b == e.buckets
        key == Min(DOMAIN b)
        bucket == b[key]
        rest == Tail(bucket)
    IN [ result |-> Head(bucket),
         key    |-> key,
         e      |-> [e EXCEPT
                        !.buckets = IF rest = << >>
                                    THEN [k \in DOMAIN b \ {key} |-> b[k]]
                                    ELSE [b EXCEPT ![key] = rest],
                        !.size = @ - 1] ]

empty(e) == e.size = 0

clear(e) == [e EXCEPT !.buckets = << >>, !.size = 0]

(***************************************************************************)
(* WeightedEvaluator::compute_result on 32-bit int.                        *)
(***************************************************************************)
Abs(x) == IF x < 0 THEN -x ELSE x

\* utils::is_product_within_limits: lower <= factor1 * factor2 <= upper for
\* lower = INT_MIN, upper = INT_MAX, decided without computing the product.
is_product_within_limits(factor1, factor2) ==
    IF factor1 = 0 \/ factor2 = 0 THEN TRUE
    ELSE IF (factor1 > 0) = (factor2 > 0)
    THEN Abs(factor1) <= INT_MAX \div Abs(factor2)
    ELSE \/ Abs(factor1) <= INT_MAX \div Abs(factor2)
         \/ /\ INT_MAX % Abs(factor2) = Abs(factor2) - 1
            /\ Abs(factor1) = (INT_MAX \div Abs(factor2)) + 1

\* a + b in two's complement, 32 bits wide.
WrapAdd(a, b) ==
    IF a > 0 /\ b > 0 /\ a > INT_MAX - b
    THEN ((a - INT_MAX) - 1) + ((b - INT_MAX) - 1)
    ELSE IF a < 0 /\ b < 0 /\ a < INT_MIN - b
    THEN ((a + INT_MAX) + 1) + ((b + INT_MAX) + 1)
    ELSE a + b

WrapNeg(a) == IF a = INT_MIN THEN INT_MIN ELSE -a

\* value * weight in two's complement, 32 bits wide.
RECURSIVE WrapMul(_, _)
WrapMul(value, weight) ==
    IF weight = 0 THEN 0
    ELSE IF weight < 0 THEN WrapMul(WrapNeg(value), -weight)
    ELSE WrapAdd(WrapMul(value, weight - 1), value)

Returned(value) ==
    [kind |-> "value", value |-> value, preferred_operators |-> << >>]
Aborted == [kind |-> "abort"]

\* Faulty variant of compute_result: no test for INFTY before the product.
compute_result_no_infty_test(value, weight) ==
    IF is_product_within_limits(value, weight)
    THEN {Returned(value * weight)}
    ELSE IF ~we_ndebug THEN {Aborted}
    ELSE {Returned(WrapMul(value, weight)), Aborted}

\* The outcomes of compute_result for the child's value.  The assert aborts a
\* build without NDEBUG; with NDEBUG the overflowing product is undefined
\* behaviour: the wrapped product, or a trap.
compute_result(value, weight) ==
    IF value # INFTY
    THEN IF is_product_within_limits(value, weight)
         THEN {Returned(value * weight)}
         ELSE IF ~we_ndebug THEN {Aborted}
         ELSE {Returned(WrapMul(value, weight)), Aborted}
    ELSE {Returned(value)}

(***************************************************************************)
(* Costs, the heuristic and the open list's evaluator.                     *)
(***************************************************************************)
is_unit_cost == \A op \in task.ops : task.cost[op] = 1

get_adjusted_cost(op) ==
    CASE cost_type = "NORMAL"  -> task.cost[op]
      [] cost_type = "ONE"     -> 1
      [] cost_type = "PLUSONE" -> IF is_unit_cost THEN 1 ELSE task.cost[op] + 1

\* The heuristic caches its estimates: a state evaluated before yields the
\* cached estimate, a state evaluated for the first time is computed.
is_estimate_cached(e, s) == e.h_cache[s] # NO_VALUE

get_evaluator_value(e, s) ==
    IF is_estimate_cached(e, s) THEN e.h_cache[s] ELSE h0[s + 1]

\* The re-evaluation of a popped state by the lazy evaluator.
reevaluate(e, s) == h1[s + 1]

store_estimate(e, s, h) == [e EXCEPT !.h_cache[s] = h]

\* The open list's evaluator is f = g + h, infinite when h is.
open_list_key(node_g, h) == IF h = INFTY THEN INFTY ELSE node_g + h

is_dead_end(node_g, h) == open_list_key(node_g, h) = INFTY

\* OpenList::insert: a preferred-only list drops entries that are not
\* preferred, and no list stores a dead end.
insert(e, node_g, h, is_preferred, entry) ==
    IF pref_only /\ ~is_preferred THEN e
    ELSE IF is_dead_end(node_g, h) THEN e
    ELSE do_insertion(e, open_list_key(node_g, h), entry)

(***************************************************************************)
(* The successor generator, the pruning method and the preferred-operator  *)
(* evaluators.                                                             *)
(***************************************************************************)
RECURSIVE SeqOfSet(_)
SeqOfSet(S) ==
    IF S = {} THEN << >>
    ELSE LET m == Min(S) IN <<m>> \o SeqOfSet(S \ {m})

generate_applicable_ops(s) ==
    SeqOfSet({op \in task.ops : OpSrc[op] = s})

prune_operators(s, ops) ==
    SelectSeq(ops, LAMBDA op : op \notin pruned)

collect_preferred_operators(s) ==
    {op \in preferred : op \in task.ops /\ OpSrc[op] = s}

(***************************************************************************)
(* Path-dependent evaluators.                                              *)
(***************************************************************************)
\* Evaluator::get_path_dependent_evaluators(evals): a weighted evaluator asks
\* its child, a path-dependent heuristic inserts itself, any other evaluator
\* inserts nothing.  The null pointer is never asked.
RECURSIVE get_path_dependent_evaluators(_, _)
get_path_dependent_evaluators(ev, evals) ==
    IF ev = no_evaluator THEN evals
    ELSE IF WeightedChild[ev] # no_evaluator
    THEN get_path_dependent_evaluators(WeightedChild[ev], evals)
    ELSE IF ev \in PathDependent THEN evals \cup {ev}
    ELSE evals

RECURSIVE collect_from_all(_, _)
collect_from_all(evs, evals) ==
    IF evs = << >> THEN evals
    ELSE collect_from_all(Tail(evs), get_path_dependent_evaluators(Head(evs), evals))

\* Faulty variant of collect_path_dependent_evaluators: a vector, which keeps
\* an evaluator once per way it is reached.
RECURSIVE collect_path_dependent_evaluators_vector(_)
collect_path_dependent_evaluators_vector(evs) ==
    IF evs = << >> THEN << >>
    ELSE SeqOfSet(get_path_dependent_evaluators(Head(evs), {}))
            \o collect_path_dependent_evaluators_vector(Tail(evs))

\* The first part of initialize: the std::set evals filled from the open list,
\* the preferred-operator evaluators, the f_evaluator and the lazy_evaluator,
\* then assigned to the vector path_dependent_evaluators.
collect_path_dependent_evaluators(evs) ==
    SeqOfSet(collect_from_all(evs, {}))

\* The evaluators initialize asks, in its order.
evaluator_sources ==
    <<evaluators.open_list>> \o evaluators.preferred
        \o <<evaluators.f_evaluator, evaluators.lazy_evaluator>>

RECURSIVE notify_initial_state(_, _)
notify_initial_state(e, evs) ==
    IF evs = << >> THEN e
    ELSE notify_initial_state([e EXCEPT !.notified_initial[Head(evs)] = @ + 1],
                              Tail(evs))

RECURSIVE notify_state_transition(_, _)
notify_state_transition(e, evs) ==
    IF evs = << >> THEN e
    ELSE notify_state_transition([e EXCEPT !.notified_transition[Head(evs)] = @ + 1],
                                 Tail(evs))

\* initialize up to the evaluation of the initial state.
notify_evaluators(e) ==
    LET pd == collect_path_dependent_evaluators(evaluator_sources)
    IN notify_initial_state([e EXCEPT !.path_dependent_evaluators = pd], pd)

(***************************************************************************)
(* EagerSearch::initialize.                                                *)
(***************************************************************************)
\* Faulty variant of initialize: the initial node is opened and inserted even
\* when the open list reports a dead end.
initialize_ignoring_dead_end(e) ==
    LET h  == get_evaluator_value(e, initial_state)
        e0 == notify_evaluators(e)
        e1 == [store_estimate(e0, initial_state, h) EXCEPT !.evaluated_states = @ + 1]
        e2 == open_initial(e1, initial_state)
        e3 == [e2 EXCEPT !.offers[initial_state] = @ \cup {0}]
    IN do_insertion(e3, open_list_key(0, h), initial_state)

initialize(e) ==
    LET h  == get_evaluator_value(e, initial_state)
        e0 == notify_evaluators(e)
        e1 == [store_estimate(e0, initial_state, h) EXCEPT !.evaluated_states = @ + 1]
    IN IF is_dead_end(0, h) THEN e1
       ELSE LET e2 == open_initial(e1, initial_state)
                e3 == [e2 EXCEPT !.offers[initial_state] = @ \cup {0}]
            IN insert(e3, 0, h, TRUE, initial_state)

(***************************************************************************)
(* EagerSearch::step, first half: pop entries until a node is selected for *)
(* expansion (sel) or the open list is empty (sel = no_state).             *)
(***************************************************************************)
\* Faulty variant of select_node: the expansion is not counted.
select_node_uncounted(e, id) ==
    [e |-> close(e, id), sel |-> id]

select_node(e, id) ==
    LET e1 == close(e, id)
    IN [e |-> [e1 EXCEPT !.expanded = @ + 1], sel |-> id]

\* History: the pop of entry id of key key, and the branch the loop took.
Popped(e, id, key, branch, old_h, new_h) ==
    [e EXCEPT !.pops = Append(@, [id |-> id, key |-> key, status |-> e.status[id],
                                  g |-> e.g[id], branch |-> branch,
                                  old_h |-> old_h, new_h |-> new_h])]

RECURSIVE pop_loop(_)
pop_loop(e) ==
    IF empty(e) THEN [e |-> e, sel |-> no_state]
    ELSE Bind(remove_min(e), LAMBDA r :
      LET id == r.result
          e1 == [r.e EXCEPT !.popped = @ \cup {<<id, r.e.status[id]>>}]
          skip   == Popped(e1, id, r.key, "continue", NO_VALUE, NO_VALUE)
          direct == Popped(e1, id, r.key, "close", NO_VALUE, NO_VALUE)
      IN IF e1.status[id] = "closed" THEN pop_loop(skip)
         ELSE IF ~lazy_evaluator THEN select_node(direct, id)
         ELSE IF e1.status[id] = "dead_end" THEN pop_loop(skip)
         ELSE IF ~is_estimate_cached(e1, id) THEN select_node(direct, id)
         ELSE
           LET old_h == e1.h_cache[id]
               new_h == reevaluate(e1, id)
               e2    == store_estimate(e1, id, new_h)
           IN IF is_dead_end(e2.g[id], new_h)
              THEN pop_loop([mark_as_dead_end(
                                 Popped(e2, id, r.key, "dead_end", old_h, new_h), id)
                               EXCEPT !.dead_ends = @ + 1])
              ELSE IF new_h # old_h
              THEN pop_loop(insert(Popped(e2, id, r.key, "insert", old_h, new_h),
                                   e2.g[id], new_h, FALSE, id))
              ELSE select_node(Popped(e2, id, r.key, "close", old_h, new_h), id))

(***************************************************************************)
(* EagerSearch::step, second half: the expansion of the selected node.     *)
(***************************************************************************)
\* Faulty variant of handle_new: a successor found to be a dead end is marked
\* and counted, and inserted into the open list all the same.
handle_new_insert_dead_end(e, node, op, succ, is_preferred) ==
    LET succ_g == e.g[node] + get_adjusted_cost(op)
        h  == get_evaluator_value(e, succ)
        e1 == [store_estimate(e, succ, h) EXCEPT !.evaluated_states = @ + 1]
    IN IF is_dead_end(succ_g, h)
       THEN do_insertion([mark_as_dead_end(e1, succ) EXCEPT !.dead_ends = @ + 1],
                         succ_g, succ)
       ELSE LET e2 == open(e1, succ, node, op, get_adjusted_cost(op))
                e3 == [e2 EXCEPT !.offers[succ] = @ \cup {succ_g}]
            IN insert(e3, succ_g, h, is_preferred, succ)

\* The successor was never seen: evaluate it, open it, insert it.
handle_new(e, node, op, succ, is_preferred) ==
    LET succ_g == e.g[node] + get_adjusted_cost(op)
        h  == get_evaluator_value(e, succ)
        e1 == [store_estimate(e, succ, h) EXCEPT !.evaluated_states = @ + 1]
    IN IF is_dead_end(succ_g, h)
       THEN [mark_as_dead_end(e1, succ) EXCEPT !.dead_ends = @ + 1]
       ELSE LET e2 == open(e1, succ, node, op, get_adjusted_cost(op))
                e3 == [e2 EXCEPT !.offers[succ] = @ \cup {succ_g}]
            IN insert(e3, succ_g, h, is_preferred, succ)

\* Faulty variants of handle_seen.  The first reopens whatever
\* reopen_closed_nodes says, the second never reopens, the third drops the
\* update_parent of the non-reopening mode.
handle_seen_always_reopen(e, node, op, succ, is_preferred) ==
    LET new_g == e.g[node] + get_adjusted_cost(op)
        e0 == [e EXCEPT !.offers[succ] = @ \cup {new_g}]
    IN IF e0.g[succ] > new_g
       THEN LET e1 == IF e0.status[succ] = "closed"
                      THEN [e0 EXCEPT !.reopened = @ + 1] ELSE e0
                e2 == reopen(e1, succ, node, op, get_adjusted_cost(op))
                h  == get_evaluator_value(e2, succ)
            IN insert(store_estimate(e2, succ, h), e2.g[succ], h,
                      is_preferred, succ)
       ELSE e0

handle_seen_never_reopen(e, node, op, succ, is_preferred) ==
    LET new_g == e.g[node] + get_adjusted_cost(op)
        e0 == [e EXCEPT !.offers[succ] = @ \cup {new_g}]
    IN IF e0.g[succ] > new_g
       THEN update_parent(e0, succ, node, op, get_adjusted_cost(op))
       ELSE e0

handle_seen_no_update(e, node, op, succ, is_preferred) ==
    LET new_g == e.g[node] + get_adjusted_cost(op)
        e0 == [e EXCEPT !.offers[succ] = @ \cup {new_g}]
    IN IF e0.g[succ] > new_g /\ reopen_closed_nodes
       THEN LET e1 == IF e0.status[succ] = "closed"
                      THEN [e0 EXCEPT !.reopened = @ + 1] ELSE e0
                e2 == reopen(e1, succ, node, op, get_adjusted_cost(op))
                h  == get_evaluator_value(e2, succ)
            IN insert(store_estimate(e2, succ, h), e2.g[succ], h,
                      is_preferred, succ)
       ELSE e0

\* A fourth faulty variant: the test of the g values is reversed.
handle_seen_reversed_test(e, node, op, succ, is_preferred) ==
    LET new_g == e.g[node] + get_adjusted_cost(op)
        e0 == [e EXCEPT !.offers[succ] = @ \cup {new_g}]
    IN IF e0.g[succ] < new_g
       THEN IF reopen_closed_nodes
            THEN LET e1 == IF e0.status[succ] = "closed"
                           THEN [e0 EXCEPT !.reopened = @ + 1] ELSE e0
                     e2 == reopen(e1, succ, node, op, get_adjusted_cost(op))
                     h  == get_evaluator_value(e2, succ)
                 IN insert(store_estimate(e2, succ, h), e2.g[succ], h,
                           is_preferred, succ)
            ELSE update_parent(e0, succ, node, op, get_adjusted_cost(op))
       ELSE e0

\* A fifth faulty variant: a reopened node is not inserted.
handle_seen_reopen_no_insert(e, node, op, succ, is_preferred) ==
    LET new_g == e.g[node] + get_adjusted_cost(op)
        e0 == [e EXCEPT !.offers[succ] = @ \cup {new_g}]
    IN IF e0.g[succ] > new_g
       THEN IF reopen_closed_nodes
            THEN LET e1 == IF e0.status[succ] = "closed"
                           THEN [e0 EXCEPT !.reopened = @ + 1] ELSE e0
                 IN reopen(e1, succ, node, op, get_adjusted_cost(op))
            ELSE update_parent(e0, succ, node, op, get_adjusted_cost(op))
       ELSE e0

\* The successor is open or closed.
handle_seen(e, node, op, succ, is_preferred) ==
    LET new_g == e.g[node] + get_adjusted_cost(op)
        e0 == [e EXCEPT !.offers[succ] = @ \cup {new_g}]
    IN IF e0.g[succ] > new_g
       THEN IF reopen_closed_nodes
            THEN LET e1 == IF e0.status[succ] = "closed"
                           THEN [e0 EXCEPT !.reopened = @ + 1] ELSE e0
                     e2 == reopen(e1, succ, node, op, get_adjusted_cost(op))
                     h  == get_evaluator_value(e2, succ)
                 IN insert(store_estimate(e2, succ, h), e2.g[succ], h,
                           is_preferred, succ)
            ELSE update_parent(e0, succ, node, op, get_adjusted_cost(op))
       ELSE e0

\* Faulty variant of handle_op: the bound test uses g and the adjusted cost.
handle_op_adjusted_bound(e, node, op) ==
    IF e.g[node] + get_adjusted_cost(op) >= bound THEN e
    ELSE
      LET succ == OpDst[op]
          is_preferred == op \in e.last_preferred
      IN Bind(notify_state_transition(
                  [e EXCEPT !.generated = @ + 1,
                            !.last_generated = @ \cup {op}],
                  e.path_dependent_evaluators),
              LAMBDA e1 :
                  IF e1.status[succ] = "dead_end" THEN e1
                  ELSE IF e1.status[succ] = "new"
                  THEN handle_new(e1, node, op, succ, is_preferred)
                  ELSE handle_seen(e1, node, op, succ, is_preferred))

handle_op(e, node, op) ==
    IF e.real_g[node] + task.cost[op] >= bound THEN e
    ELSE
      LET succ == OpDst[op]
          is_preferred == op \in e.last_preferred
      IN Bind(notify_state_transition(
                  [e EXCEPT !.generated = @ + 1,
                            !.last_generated = @ \cup {op}],
                  e.path_dependent_evaluators),
              LAMBDA e1 :
                  IF e1.status[succ] = "dead_end" THEN e1
                  ELSE IF e1.status[succ] = "new"
                  THEN handle_new(e1, node, op, succ, is_preferred)
                  ELSE handle_seen(e1, node, op, succ, is_preferred))

RECURSIVE expand_ops(_, _, _)
expand_ops(e, node, ops) ==
    IF ops = << >> THEN e
    ELSE Bind(handle_op(e, node, Head(ops)),
              LAMBDA e1 : expand_ops(e1, node, Tail(ops)))

\* SearchSpace::trace_path: the operators along the parent pointers.
RECURSIVE trace_path(_, _, _)
trace_path(e, s, fuel) ==
    IF e.creating_operator[s] = no_operator \/ fuel = 0 THEN << >>
    ELSE Append(trace_path(e, e.parent_state_id[s], fuel - 1),
                e.creating_operator[s])

\* Faulty variant of step: an empty open list does not end the search.
step_never_fails(e) ==
    Bind(pop_loop([e EXCEPT !.popped = {}, !.pops = << >>, !.node_ops = {}]),
         LAMBDA p :
       IF p.sel = no_state
       THEN [e |-> p.e, status |-> "IN_PROGRESS", plan |-> plan]
       ELSE IF p.sel \in task.goal
       THEN [e |-> p.e, status |-> "SOLVED",
             plan |-> trace_path(p.e, p.sel, Cardinality(States))]
       ELSE
         LET applicable_ops == prune_operators(p.sel, generate_applicable_ops(p.sel))
         IN Bind([p.e EXCEPT
                     !.last_preferred = collect_preferred_operators(p.sel),
                     !.last_applicable = {applicable_ops[i] : i \in DOMAIN applicable_ops},
                     !.last_generated = {}],
                 LAMBDA e1 :
                     [e |-> expand_ops(e1, p.sel, applicable_ops),
                      status |-> "IN_PROGRESS", plan |-> plan]))

\* The whole step: [e, status, plan].
step(e) ==
    Bind(pop_loop([e EXCEPT !.popped = {}, !.pops = << >>, !.node_ops = {}]),
         LAMBDA p :
       IF p.sel = no_state
       THEN [e |-> p.e, status |-> "FAILED", plan |-> plan]
       ELSE IF p.sel \in task.goal
       THEN [e |-> p.e, status |-> "SOLVED",
             plan |-> trace_path(p.e, p.sel, Cardinality(States))]
       ELSE
         LET applicable_ops == prune_operators(p.sel, generate_applicable_ops(p.sel))
         IN Bind([p.e EXCEPT
                     !.last_preferred = collect_preferred_operators(p.sel),
                     !.last_applicable = {applicable_ops[i] : i \in DOMAIN applicable_ops},
                     !.last_generated = {}],
                 LAMBDA e1 :
                     [e |-> expand_ops(e1, p.sel, applicable_ops),
                      status |-> "IN_PROGRESS", plan |-> plan]))

(***************************************************************************)
(* The state machine of one EagerSearch run.                               *)
(***************************************************************************)
\* Runs on every task of the family, with the null pruning method, no
\* preferred-operator evaluator and an open list that accepts every entry.
MainFamily ==
    /\ task \in Tasks
    /\ h0 \in H0Profiles
    /\ lazy_evaluator \in BOOLEAN
    /\ does_cache_estimates \in (IF lazy_evaluator THEN BOOLEAN ELSE {FALSE})
    /\ h1 \in (IF lazy_evaluator /\ does_cache_estimates THEN H1Profiles(h0) ELSE {h0})
    /\ cost_type \in CostTypes
    /\ bound \in Bounds
    /\ reopen_closed_nodes \in BOOLEAN
    /\ pref_only = FALSE
    /\ preferred = {}
    /\ pruned = {}
    /\ evaluators = EvaluatorSharing(lazy_evaluator)

\* Runs with preferred-operator evaluators, a pruning method and possibly a
\* preferred-only open list.
PrefFamily ==
    /\ task \in [ops : OpSets, cost : CostProfiles, goal : {{5}}]
    /\ h0 \in {<<0, 0, 0, 0, 0, 0>>, <<0, 0, 0, 3, 0, 0>>}
    /\ lazy_evaluator \in BOOLEAN
    /\ does_cache_estimates = lazy_evaluator
    /\ h1 \in (IF lazy_evaluator THEN H1Profiles(h0) ELSE {h0})
    /\ cost_type = "NORMAL"
    /\ bound = INT_MAX
    /\ reopen_closed_nodes \in BOOLEAN
    /\ pref_only \in BOOLEAN
    /\ preferred \in PreferredSets
    /\ pruned \in PrunedSets
    /\ evaluators \in EvaluatorChoices(lazy_evaluator)

\* The handcrafted graph of the reopening scenario: state 4 is reached with
\* g = 10 via state 3 and with g = 7 via state 1, whose inadmissible estimate 8
\* delays its expansion until after state 4 has been closed.
ReopenTask ==
    [ops |-> {1, 2, 5, 6, 7}, cost |-> <<3, 5, 1, 1, 5, 1, 4, 1, 1>>, goal |-> {5}]
ReopenEstimates == <<0, 8, 0, 0, 0, 0>>

ReopenFamily ==
    /\ task = ReopenTask
    /\ h0 = ReopenEstimates
    /\ h1 = h0
    /\ lazy_evaluator = FALSE
    /\ does_cache_estimates = FALSE
    /\ cost_type = "NORMAL"
    /\ bound = INT_MAX
    /\ reopen_closed_nodes \in BOOLEAN
    /\ pref_only = FALSE
    /\ preferred = {}
    /\ pruned = {}
    /\ evaluators = EvaluatorPlain

\* Faulty variant of the constructor: no test of does_cache_estimates.
EagerSearch_unchecked(lazy, caches) == "constructed"

\* EagerSearch::EagerSearch: a lazy_evaluator that does not cache its estimates
\* ends the process with exit code SEARCH_INPUT_ERROR.
EagerSearch(lazy, caches) ==
    IF lazy /\ ~caches THEN "SEARCH_INPUT_ERROR" ELSE "constructed"

\* The engine as constructed, before initialize().
Constructed ==
    /\ pc = EagerSearch(lazy_evaluator, does_cache_estimates)
    /\ eng = NewEngine
    /\ search_status = "IN_PROGRESS"
    /\ plan = << >>

\* One fixed engine, for the specifications that drive another component.
IdleEager ==
    /\ task = [ops |-> {1, 2, 3, 4, 5, 6}, cost |-> <<1, 1, 1, 1, 0, 3, 3, 0, 3>>,
               goal |-> {5}]
    /\ h0 = <<0, 0, 0, 0, 0, 0>>
    /\ h1 = h0
    /\ lazy_evaluator = FALSE
    /\ does_cache_estimates = FALSE
    /\ cost_type = "NORMAL"
    /\ bound = INT_MAX
    /\ reopen_closed_nodes = FALSE
    /\ pref_only = FALSE
    /\ preferred = {}
    /\ pruned = {}
    /\ evaluators = EvaluatorPlain
    /\ Constructed

NewOpenList == [buckets |-> << >>, size |-> 0]

IdleOpenList ==
    /\ ol = NewOpenList
    /\ ol_shadow = << >>
    /\ ol_last = "none"
    /\ ol_removed = << >>

NoResult == [kind |-> "none"]

IdleWeighted ==
    /\ we_value = 0
    /\ we_weight = 1
    /\ we_ndebug = FALSE
    /\ we_result = NoResult

\* No IteratedSearch: the engine is run directly.
IdleIterated ==
    /\ engine_configs = << >>
    /\ pass_bound = FALSE
    /\ repeat_last_phase = FALSE
    /\ continue_on_fail = FALSE
    /\ continue_on_solve = FALSE
    /\ it = [status |-> "none"]
    /\ it_pc = "none"

\* No DiversePotentialHeuristics factory.
IdlePotentials == dph = [pc |-> "none"]

\* Nothing has been bound.
IdleBind ==
    /\ component_maps = << >>
    /\ components = << >>
    /\ bindings = << >>

Init ==
    /\ MainFamily \/ PrefFamily \/ ReopenFamily
    /\ Constructed
    /\ IdleOpenList
    /\ IdleWeighted
    /\ IdleIterated
    /\ IdleBind
    /\ IdlePotentials

Initialize ==
    /\ pc = "constructed"
    /\ eng' = initialize(eng)
    /\ pc' = "searching"
    /\ UNCHANGED <<config, search_status, plan, ol_vars, we_vars,
                   it_vars, bind_vars, dph_vars>>

\* SearchEngine::search calls step while the status is IN_PROGRESS.
Step ==
    /\ pc = "searching"
    /\ \E r \in {step(eng)} :
          /\ eng' = r.e
          /\ search_status' = r.status
          /\ plan' = r.plan
          /\ pc' = IF r.status = "IN_PROGRESS" THEN "searching" ELSE "done"
    /\ UNCHANGED <<config, ol_vars, we_vars, it_vars, bind_vars, dph_vars>>

Next == Initialize \/ Step

Spec == Init /\ [][Next]_vars

\* The runs whose termination is checked: cyclic and acyclic tasks, with and
\* without a reachable goal, every cost_type, with and without reopening and
\* a lazy_evaluator.
SearchFamily ==
    /\ task \in [ops : {{1, 2, 3, 4, 5, 6, 7, 8, 9}}, cost : CostProfiles,
                 goal : {{5}, {}}]
    /\ h0 \in {<<0, 0, 0, 0, 0, 0>>, <<0, 0, 0, 3, 1, 0>>}
    /\ lazy_evaluator \in BOOLEAN
    /\ does_cache_estimates = lazy_evaluator
    /\ h1 \in (IF lazy_evaluator
               THEN {Restale(h0, 4, h0[5] + 1), Restale(h0, 3, INFTY)} ELSE {h0})
    /\ cost_type \in CostTypes
    /\ bound \in {5, INT_MAX}
    /\ reopen_closed_nodes \in BOOLEAN
    /\ pref_only = FALSE
    /\ preferred = {}
    /\ pruned = {}
    /\ evaluators = EvaluatorSharing(lazy_evaluator)

InitSearch ==
    /\ SearchFamily
    /\ Constructed
    /\ IdleOpenList
    /\ IdleWeighted
    /\ IdleIterated
    /\ IdleBind
    /\ IdlePotentials

\* SearchEngine::search calls step again as long as the last step has returned
\* IN_PROGRESS, so a run in which a step is due forever takes it.
SpecSearch == InitSearch /\ [][Next]_vars /\ WF_vars(Next)

(***************************************************************************)
(* The state machine of a BestFirstOpenList under arbitrary calls of       *)
(* do_insertion, remove_min and clear.  ol_shadow keeps what a priority    *)
(* queue with FIFO ties holds, independently of the buckets.               *)
(***************************************************************************)
MaxEntries == 3
MaxKey == 2
Keys == 0 .. MaxKey
Entries == {0, 1}

\* The position in a sequence of <<key, entry>> of the earliest pair with the
\* smallest key.
FifoMinIndex(sh) ==
    LET m == Min({sh[i][1] : i \in DOMAIN sh})
    IN Min({i \in DOMAIN sh : sh[i][1] = m})

RemoveAt(sh, i) ==
    [k \in 1 .. Len(sh) - 1 |-> IF k < i THEN sh[k] ELSE sh[k + 1]]

InitOpenList ==
    /\ IdleEager
    /\ IdleOpenList
    /\ IdleWeighted
    /\ IdleIterated
    /\ IdleBind
    /\ IdlePotentials

OLInsert ==
    /\ ol.size < MaxEntries
    /\ \E key \in Keys, entry \in Entries :
          /\ ol' = do_insertion(ol, key, entry)
          /\ ol_shadow' = Append(ol_shadow, <<key, entry>>)
    /\ ol_last' = "do_insertion"
    /\ UNCHANGED <<ol_removed, eager_vars, we_vars, it_vars, bind_vars, dph_vars>>

\* remove_min asserts size > 0; EagerSearch::step calls it after empty().
OLRemoveMin ==
    /\ ~empty(ol)
    /\ LET r == remove_min(ol)
       IN /\ ol' = r.e
          /\ ol_removed' = <<r.key, r.result>>
    /\ ol_shadow' = RemoveAt(ol_shadow, FifoMinIndex(ol_shadow))
    /\ ol_last' = "remove_min"
    /\ UNCHANGED <<eager_vars, we_vars, it_vars, bind_vars, dph_vars>>

OLClear ==
    /\ ol' = clear(ol)
    /\ ol_shadow' = << >>
    /\ ol_last' = "clear"
    /\ UNCHANGED <<ol_removed, eager_vars, we_vars, it_vars, bind_vars, dph_vars>>

NextOpenList == OLInsert \/ OLRemoveMin \/ OLClear

SpecOpenList == InitOpenList /\ [][NextOpenList]_vars

(***************************************************************************)
(* The state machine of one WeightedEvaluator::compute_result call, for    *)
(* child values and weights around the limits of int.                      *)
(***************************************************************************)
ChildValues ==
    {-3, -1, 0, 1, 2, 7, 1000, 1073741823, 1073741824, INT_MAX - 1, INFTY}
Weights == {-2, -1, 0, 1, 2, 3, 4}

InitWeighted ==
    /\ IdleEager
    /\ IdleOpenList
    /\ we_value \in ChildValues
    /\ we_weight \in Weights
    /\ we_ndebug \in BOOLEAN
    /\ we_result = NoResult
    /\ IdleIterated
    /\ IdleBind
    /\ IdlePotentials

ComputeResult ==
    /\ we_result = NoResult
    /\ we_result' \in compute_result(we_value, we_weight)
    /\ UNCHANGED <<we_value, we_weight, we_ndebug, eager_vars,
                   ol_vars, it_vars, bind_vars, dph_vars>>

NextWeighted == ComputeResult

SpecWeighted == InitWeighted /\ [][NextWeighted]_vars

(***************************************************************************)
(* The state machine of an IteratedSearch whose phases are EagerSearch     *)
(* engines.  SearchEngine::search calls IteratedSearch::step while the     *)
(* status is IN_PROGRESS; inside a step, current_search->search() runs     *)
(* initialize and the steps of the child (Initialize, Step) to a terminal  *)
(* status.  max_time is infinite.                                          *)
(***************************************************************************)
MaxPhases == 3

\* The blueprints of the phases.
PhaseConfigs ==
    { [h0 |-> <<0, 0, 0, 0, 0, 0>>, cost_type |-> "NORMAL", reopen |-> TRUE,
       bound |-> INT_MAX],
      [h0 |-> <<0, 0, 0, 3, 0, 0>>, cost_type |-> "NORMAL", reopen |-> FALSE,
       bound |-> INT_MAX],
      [h0 |-> <<0, 0, 0, 3, 0, 0>>, cost_type |-> "ONE", reopen |-> FALSE,
       bound |-> INT_MAX],
      [h0 |-> <<0, 0, 0, 0, 0, 0>>, cost_type |-> "PLUSONE", reopen |-> TRUE,
       bound |-> 5] }
EngineConfigLists ==
    { <<c>> : c \in PhaseConfigs } \cup { <<c, d>> : c, d \in PhaseConfigs }

IteratedTasks ==
    { [ops |-> {1, 2, 3, 4, 5, 6}, cost |-> <<1, 2, 0, 0, 2, 2, 3, 0, 1>>, goal |-> {5}],
      [ops |-> {1, 2, 3, 4, 5, 6, 9}, cost |-> <<1, 1, 1, 1, 0, 3, 3, 0, 3>>, goal |-> {5}],
      [ops |-> {1, 2, 3, 4, 5, 6}, cost |-> <<1, 1, 1, 1, 0, 3, 3, 0, 3>>, goal |-> {0, 5}],
      [ops |-> {1, 3, 4, 6, 8}, cost |-> <<1, 1, 1, 0, 0, 0, 1, 0, 0>>, goal |-> {}] }
IteratedBounds == {0, 5, 7, INT_MAX}

\* IteratedSearch::IteratedSearch.
NewIteratedSearch(b) ==
    [ bound                     |-> b,
      phase                     |-> 0,
      last_phase_found_solution |-> FALSE,
      best_bound                |-> b,
      iterated_found_solution   |-> FALSE,
      solution_found            |-> FALSE,   \* SearchEngine::solution_found
      plan                      |-> << >>,   \* SearchEngine::plan
      saved_plans               |-> << >>,   \* what plan_manager has saved
      found_costs               |-> {},      \* history: costs of the phases' plans
      status                    |-> "IN_PROGRESS",
      expanded                  |-> 0,       \* statistics
      evaluated_states          |-> 0,
      generated                 |-> 0,
      reopened                  |-> 0 ]

\* No phase has been created yet.
NoChild ==
    /\ h0 = <<0, 0, 0, 0, 0, 0>>
    /\ h1 = h0
    /\ lazy_evaluator = FALSE
    /\ does_cache_estimates = FALSE
    /\ cost_type = "NORMAL"
    /\ bound = INT_MAX
    /\ reopen_closed_nodes = FALSE
    /\ pref_only = FALSE
    /\ preferred = {}
    /\ pruned = {}
    /\ evaluators = EvaluatorPlain
    /\ pc = "none"
    /\ eng = NewEngine
    /\ search_status = "IN_PROGRESS"
    /\ plan = << >>

InitIterated ==
    /\ task \in IteratedTasks
    /\ NoChild
    /\ engine_configs \in EngineConfigLists
    /\ pass_bound \in BOOLEAN
    /\ repeat_last_phase \in BOOLEAN
    /\ continue_on_fail \in BOOLEAN
    /\ continue_on_solve \in BOOLEAN
    /\ \E b \in IteratedBounds : it = NewIteratedSearch(b)
    /\ it_pc = "ready"
    /\ IdleOpenList
    /\ IdleWeighted
    /\ IdleBind
    /\ IdlePotentials

\* Faulty variant of create_current_phase: the last phase is repeated also
\* after it has found no solution.
create_current_phase_after_failure(i) ==
    LET num_phases == Len(engine_configs)
    IN IF i.phase >= num_phases
       THEN IF repeat_last_phase
            THEN num_phases
            ELSE 0
       ELSE i.phase + 1

\* IteratedSearch::create_current_phase: the index into engine_configs of the
\* blueprint to run (1-based), or 0 where the code returns nullptr.
create_current_phase(i) ==
    LET num_phases == Len(engine_configs)
    IN IF i.phase >= num_phases
       THEN IF repeat_last_phase /\ i.last_phase_found_solution
            THEN num_phases
            ELSE 0
       ELSE i.phase + 1

\* SearchEngine::found_solution.
found_solution(i) == i.solution_found

\* SearchEngine::set_plan.
set_plan(i, p) == [i EXCEPT !.plan = p, !.solution_found = TRUE]

\* calculate_plan_cost: the sum of the operators' costs.
RECURSIVE calculate_plan_cost(_)
calculate_plan_cost(p) ==
    IF p = << >> THEN 0 ELSE task.cost[Head(p)] + calculate_plan_cost(Tail(p))

\* Faulty variant of step_return_value: continue_on_fail decides also after
\* a phase that found a solution.
step_return_value_fail_first(i) ==
    IF continue_on_fail THEN "IN_PROGRESS"
    ELSE IF i.last_phase_found_solution
    THEN IF continue_on_solve THEN "IN_PROGRESS" ELSE "SOLVED"
    ELSE IF i.iterated_found_solution THEN "SOLVED" ELSE "FAILED"

\* IteratedSearch::step_return_value.
step_return_value(i) ==
    IF i.last_phase_found_solution
    THEN IF continue_on_solve THEN "IN_PROGRESS" ELSE "SOLVED"
    ELSE IF continue_on_fail THEN "IN_PROGRESS"
    ELSE IF i.iterated_found_solution THEN "SOLVED" ELSE "FAILED"

\* Faulty variant of adopt_plan: a plan as good as the best one is adopted too.
adopt_plan_not_strict(i, found_plan) ==
    LET plan_cost == calculate_plan_cost(found_plan)
    IN IF plan_cost <= i.best_bound
       THEN [set_plan(i, found_plan) EXCEPT
                !.saved_plans = Append(@, found_plan),
                !.best_bound = plan_cost]
       ELSE i

\* IteratedSearch::step, lines 129-135: a plan better than best_bound is
\* saved, becomes the best bound and the engine's plan.
adopt_plan(i, found_plan) ==
    LET plan_cost == calculate_plan_cost(found_plan)
    IN IF plan_cost < i.best_bound
       THEN [set_plan(i, found_plan) EXCEPT
                !.saved_plans = Append(@, found_plan),
                !.best_bound = plan_cost]
       ELSE i

\* The bound of the child: set_bound(best_bound) if pass_bound.
child_bound(i, cfg) == IF pass_bound THEN i.best_bound ELSE cfg.bound

\* IteratedSearch::step when create_current_phase returns no engine.
IteratedStepNoPhase ==
    /\ it_pc = "ready"
    /\ it.status = "IN_PROGRESS"
    /\ create_current_phase(it) = 0
    /\ it' = [it EXCEPT !.status = IF found_solution(it) THEN "SOLVED" ELSE "FAILED"]
    /\ UNCHANGED <<eager_vars, ol_vars, we_vars, it_config, it_pc, bind_vars, dph_vars>>

\* IteratedSearch::step up to the call of current_search->search(): the phase
\* is created from its blueprint, its bound is set, phase is incremented.
IteratedStepRunPhase ==
    /\ it_pc = "ready"
    /\ it.status = "IN_PROGRESS"
    /\ create_current_phase(it) # 0
    /\ it.phase < MaxPhases
    /\ LET cfg == engine_configs[create_current_phase(it)]
       IN /\ h0' = cfg.h0
          /\ h1' = cfg.h0
          /\ cost_type' = cfg.cost_type
          /\ reopen_closed_nodes' = cfg.reopen
          /\ bound' = child_bound(it, cfg)
    /\ pc' = EagerSearch(lazy_evaluator, does_cache_estimates)
    /\ eng' = NewEngine
    /\ search_status' = "IN_PROGRESS"
    /\ plan' = << >>
    /\ it' = [it EXCEPT !.phase = @ + 1]
    /\ it_pc' = "child"
    /\ UNCHANGED <<task, lazy_evaluator, does_cache_estimates, pref_only, preferred,
                   pruned, evaluators, ol_vars, we_vars, it_config, bind_vars, dph_vars>>

\* The same part of IteratedSearch::step once phase has reached MaxPhases.
\* From there on phase and the statistics are not counted further: no test
\* reads the statistics, and phase is read by phase >= num_phases only, which
\* holds and keeps holding.
IteratedStepRepeatPhase ==
    /\ it_pc = "ready"
    /\ it.status = "IN_PROGRESS"
    /\ create_current_phase(it) # 0
    /\ it.phase >= MaxPhases
    /\ it.phase >= Len(engine_configs)
    /\ LET cfg == engine_configs[create_current_phase(it)]
       IN /\ h0' = cfg.h0
          /\ h1' = cfg.h0
          /\ cost_type' = cfg.cost_type
          /\ reopen_closed_nodes' = cfg.reopen
          /\ bound' = child_bound(it, cfg)
    /\ pc' = EagerSearch(lazy_evaluator, does_cache_estimates)
    /\ eng' = NewEngine
    /\ search_status' = "IN_PROGRESS"
    /\ plan' = << >>
    /\ it_pc' = "repeat"
    /\ UNCHANGED <<task, lazy_evaluator, does_cache_estimates, pref_only, preferred,
                   pruned, evaluators, ol_vars, we_vars, it_config, it, bind_vars,
                   dph_vars>>

\* IteratedSearch::step after current_search->search() has returned.
IteratedStepReturn ==
    /\ it_pc \in {"child", "repeat"}
    /\ pc = "done"
    /\ LET found == search_status = "SOLVED"
           i1 == [it EXCEPT !.last_phase_found_solution = found,
                            !.iterated_found_solution = @ \/ found,
                            !.found_costs = IF found
                                            THEN @ \cup {calculate_plan_cost(plan)}
                                            ELSE @]
           i2 == IF found THEN adopt_plan(i1, plan) ELSE i1
           i3 == IF it_pc = "repeat" THEN i2
                 ELSE [i2 EXCEPT !.expanded = @ + eng.expanded,
                                 !.evaluated_states = @ + eng.evaluated_states,
                                 !.generated = @ + eng.generated,
                                 !.reopened = @ + eng.reopened]
       IN it' = [i3 EXCEPT !.status = step_return_value(i3)]
    /\ it_pc' = "ready"
    /\ UNCHANGED <<eager_vars, ol_vars, we_vars, it_config, bind_vars, dph_vars>>

NextIterated ==
    \/ IteratedStepNoPhase
    \/ IteratedStepRunPhase
    \/ Initialize
    \/ Step
    \/ IteratedStepReturn

SpecIterated == InitIterated /\ [][NextIterated]_vars

\* SearchEngine::search calls step as long as the status is IN_PROGRESS, and
\* the child's search does the same: a step that can be taken is taken.
InitIteratedSearch ==
    /\ InitIterated
    /\ Len(engine_configs) = 1 \/ engine_configs[1].reopen # engine_configs[2].reopen
    /\ it.bound \in {7, INT_MAX}

NextIteratedSearch == NextIterated \/ IteratedStepRepeatPhase

SpecIteratedSearch ==
    InitIteratedSearch /\ [][NextIteratedSearch]_vars /\ WF_vars(NextIteratedSearch)

(***************************************************************************)
(* The binding of task-independent components to a task.  A task-specific  *)
(* component is a record of components; a ComponentMap maps keys to        *)
(* indices of components.  A binding state b is [maps, heap, log].         *)
(***************************************************************************)
MaxBindCalls == 3
BindTasks == {"T1", "T2"}

\* The task-independent components: a heuristic "h", the weighted evaluators
\* "w1" = weight(h) and "w2" = weight(w1), the open list factory "olf" on w2,
\* an eager search that uses them, and an iterated search.
EvaluatorBlueprints == {"w1", "w2"}
BlueprintChild == [w1 |-> "h", w2 |-> "w1", olf |-> "w2"]
EagerBlueprint ==
    [ preferred_operator_evaluators |-> <<"w1", "w2", "w1">>,
      open_list_factory |-> "olf",
      f_evaluator |-> "w2",
      lazy_evaluator |-> "w1" ]

\* make_unique<ComponentMap>() and make_shared<ComponentMap>().  A map that is
\* a local variable of a root entry point is gone when the call returns; a
\* map its caller made is held by the caller.
NewComponentMap(owner, held) == [owner |-> owner, held |-> held, entries |-> << >>]

contains_key(b, m, key) == key \in DOMAIN b.maps[m].entries

\* std::map::insert and add_dual_key_entry: an existing entry is kept.
insert_entry(b, m, key, c) ==
    IF contains_key(b, m, key) THEN b
    ELSE [b EXCEPT !.maps[m].entries =
             [k \in DOMAIN @ \cup {key} |-> IF k = key THEN c ELSE @[k]]]

\* make_shared<...>(...): a new component, built in a call for task through
\* map m.
make_shared(b, blueprint, tsk, children, m) ==
    [ b |-> [b EXCEPT !.heap = Append(@, [blueprint |-> blueprint, task |-> tsk,
                                          children |-> children, map |-> m])],
      result |-> Len(b.heap) + 1 ]

\* History: the call for (blueprint, tsk) with map m has returned c.
Bound(b, m, blueprint, tsk, c, created) ==
    [ b |-> [b EXCEPT !.log = Append(@, [map |-> m, blueprint |-> blueprint,
                                         task |-> tsk, result |-> c,
                                         created |-> created, top |-> FALSE])],
      result |-> c ]

RECURSIVE get_task_specific(_, _, _, _)

\* create_ts: binds the child evaluator, then constructs the evaluator.
create_ts(b, blueprint, tsk, m) ==
    IF blueprint = "h" THEN make_shared(b, blueprint, tsk, << >>, m)
    ELSE Bind(get_task_specific(b, BlueprintChild[blueprint], tsk, m),
              LAMBDA child : make_shared(child.b, blueprint, tsk, <<child.result>>, m))

\* Faulty variant of get_task_specific: the map is not consulted.
get_task_specific_no_lookup(b, blueprint, tsk, m) ==
    Bind(create_ts(b, blueprint, tsk, m),
         LAMBDA made : Bound(insert_entry(made.b, m, <<blueprint>>, made.result),
                             m, blueprint, tsk, made.result, TRUE))

\* get_task_specific: the map is keyed by the task-independent component
\* alone; the task is not part of the key.
get_task_specific(b, blueprint, tsk, m) ==
    IF contains_key(b, m, <<blueprint>>)
    THEN Bound(b, m, blueprint, tsk, b.maps[m].entries[<<blueprint>>], FALSE)
    ELSE Bind(create_ts(b, blueprint, tsk, m),
              LAMBDA made : Bound(insert_entry(made.b, m, <<blueprint>>, made.result),
                                  m, blueprint, tsk, made.result, TRUE))

\* std::transform over preferred_operator_evaluators.
RECURSIVE create_task_specific_Evaluators(_, _, _, _)
create_task_specific_Evaluators(b, blueprints, tsk, m) ==
    IF blueprints = << >> THEN [b |-> b, result |-> << >>]
    ELSE Bind(get_task_specific(b, Head(blueprints), tsk, m),
         LAMBDA first :
         Bind(create_task_specific_Evaluators(first.b, Tail(blueprints), tsk, m),
         LAMBDA rest :
             [b |-> rest.b, result |-> <<first.result>> \o rest.result]))

\* create_task_specific_EagerSearch(task, component_map, depth): the map is
\* keyed by the pair (task, this).  The arguments of make_shared are evaluated
\* in an order the compiler chooses: f_evaluator first, or lazy_evaluator.
create_task_specific_EagerSearch(b, tsk, m, f_first) ==
    LET key == <<tsk, "eager">>
    IN IF contains_key(b, m, key)
       THEN Bound(b, m, "eager", tsk, b.maps[m].entries[key], FALSE)
       ELSE Bind(create_task_specific_Evaluators(
                     b, EagerBlueprint.preferred_operator_evaluators, tsk, m),
            LAMBDA td :
            Bind(get_task_specific(td.b, EagerBlueprint.open_list_factory, tsk, m),
            LAMBDA _open_list :
            Bind(get_task_specific(
                     _open_list.b, IF f_first THEN EagerBlueprint.f_evaluator
                                   ELSE EagerBlueprint.lazy_evaluator, tsk, m),
            LAMBDA one :
            Bind(get_task_specific(
                     one.b, IF f_first THEN EagerBlueprint.lazy_evaluator
                            ELSE EagerBlueprint.f_evaluator, tsk, m),
            LAMBDA two :
            Bind(make_shared(two.b, "eager", tsk,
                     td.result \o <<_open_list.result,
                                    IF f_first THEN one.result ELSE two.result,
                                    IF f_first THEN two.result ELSE one.result>>,
                     m),
            LAMBDA made :
                Bound(insert_entry(made.b, m, key, made.result),
                      m, "eager", tsk, made.result, TRUE))))))

\* create_task_specific_IteratedSearch(task, component_map, depth).
create_task_specific_IteratedSearch(b, tsk, m) ==
    LET key == <<tsk, "iterated">>
    IN IF contains_key(b, m, key)
       THEN Bound(b, m, "iterated", tsk, b.maps[m].entries[key], FALSE)
       ELSE LET made == make_shared(b, "iterated", tsk, << >>, m)
            IN Bound(insert_entry(made.b, m, key, made.result),
                     m, "iterated", tsk, made.result, TRUE)

\* Faulty variant of with_new_map: the last map made for the same kind of
\* owner is used again, if there is one.
with_last_map(b, owner) ==
    IF \E m \in DOMAIN b.maps : b.maps[m].owner = owner
    THEN [b |-> b,
          m |-> CHOOSE m \in DOMAIN b.maps :
                    /\ b.maps[m].owner = owner
                    /\ \A n \in DOMAIN b.maps : b.maps[n].owner = owner => n <= m]
    ELSE [b |-> [b EXCEPT !.maps = Append(@, NewComponentMap(owner, FALSE))],
          m |-> Len(b.maps) + 1]

\* The root entry points create_task_specific_EagerSearch(task, depth) and
\* create_task_specific_IteratedSearch(task, depth) make a new ComponentMap.
with_new_map(b, owner) ==
    [b |-> [b EXCEPT !.maps = Append(@, NewComponentMap(owner, FALSE))],
     m |-> Len(b.maps) + 1]

\* The ComponentMap a caller passes: one it holds, or one it makes.
caller_map(b, owner, m) ==
    IF m \in DOMAIN b.maps THEN b
    ELSE [b EXCEPT !.maps = Append(@, NewComponentMap(owner, TRUE))]

CallerMaps(owner) ==
    {m \in DOMAIN component_maps : /\ component_maps[m].owner = owner
                                   /\ component_maps[m].held}
        \cup {Len(component_maps) + 1}

Binding == [maps |-> component_maps, heap |-> components, log |-> bindings]

TopCalls == Cardinality({i \in DOMAIN bindings : bindings[i].top})

\* The call has returned r: its effects, and its entry in the history.
Return(r) ==
    /\ component_maps' = r.b.maps
    /\ components' = r.b.heap
    /\ bindings' = [r.b.log EXCEPT ![Len(r.b.log)].top = TRUE]
    /\ UNCHANGED <<eager_vars, ol_vars, we_vars, it_vars, dph_vars>>

InitBind ==
    /\ IdleEager
    /\ IdleOpenList
    /\ IdleWeighted
    /\ IdleIterated
    /\ IdleBind
    /\ IdlePotentials

BindEagerRoot ==
    /\ TopCalls < MaxBindCalls
    /\ \E tsk \in BindTasks, f_first \in BOOLEAN :
          \E n \in {with_new_map(Binding, "unique_ptr")} :
          \E r \in {create_task_specific_EagerSearch(n.b, tsk, n.m, f_first)} :
              Return(r)

BindIteratedRoot ==
    /\ TopCalls < MaxBindCalls
    /\ \E tsk \in BindTasks :
          \E n \in {with_new_map(Binding, "shared_ptr")} :
          \E r \in {create_task_specific_IteratedSearch(n.b, tsk, n.m)} :
              Return(r)

\* The calls with a ComponentMap of the caller: a map owned by a unique_ptr
\* for an eager search or an evaluator, by a shared_ptr for an iterated
\* search.
BindEager ==
    /\ TopCalls < MaxBindCalls
    /\ \E tsk \in BindTasks, f_first \in BOOLEAN, m \in CallerMaps("unique_ptr") :
          \E b \in {caller_map(Binding, "unique_ptr", m)} :
          \E r \in {create_task_specific_EagerSearch(b, tsk, m, f_first)} :
              Return(r)

BindIterated ==
    /\ TopCalls < MaxBindCalls
    /\ \E tsk \in BindTasks, m \in CallerMaps("shared_ptr") :
          \E b \in {caller_map(Binding, "shared_ptr", m)} :
          \E r \in {create_task_specific_IteratedSearch(b, tsk, m)} :
              Return(r)

BindEvaluator ==
    /\ TopCalls < MaxBindCalls
    /\ \E tsk \in BindTasks, blueprint \in EvaluatorBlueprints,
          m \in CallerMaps("unique_ptr") :
          \E b \in {caller_map(Binding, "unique_ptr", m)} :
          \E r \in {get_task_specific(b, blueprint, tsk, m)} :
              Return(r)

\* IteratedSearch::create_current_phase: the engine of a phase is made from
\* its blueprint, whose evaluators are predefined and so the same blueprints
\* in every phase, and bound to the task of the iterated search as a root
\* component.  History: the children of the iterated search are the engines
\* of its phases.
CreatePhase ==
    /\ TopCalls < MaxBindCalls
    /\ \E c \in DOMAIN components, f_first \in BOOLEAN :
          /\ components[c].blueprint = "iterated"
          /\ \E n \in {with_new_map(Binding, "unique_ptr")} :
             \E r \in {create_task_specific_EagerSearch(
                           n.b, components[c].task, n.m, f_first)} :
                 Return([r EXCEPT !.b.heap[c].children = Append(@, r.result)])

NextBind ==
    \/ BindEagerRoot
    \/ BindIteratedRoot
    \/ BindEager
    \/ BindIterated
    \/ BindEvaluator
    \/ CreatePhase

SpecBind == InitBind /\ [][NextBind]_vars

(***************************************************************************)
(* DiversePotentialHeuristics::find_functions.  A potential function is    *)
(* given by its values on the sampled states.  The optimizer is an LP      *)
(* solver: for a state that is no dead end optimize_for_state yields a     *)
(* function with the greatest value any admissible potential function has  *)
(* on that state, and every function it yields is admissible.              *)
(***************************************************************************)
NumSamples == 3
SampledStates == 1 .. 3
PotentialValues == 0 .. 1
PotentialFunctions == [SampledStates -> PotentialValues]
MaxNumHeuristics == {0, 1, 2, INT_MAX}

get_value(function, state) == function[state]

\* The outcomes of the optimizer for the states: the set of dead ends, and
\* for every other state the function optimize_for_state yields.
Optimizers ==
    { o \in [dead_ends : SUBSET SampledStates,
             for_state : [SampledStates -> PotentialFunctions]] :
          \A s, t \in SampledStates \ o.dead_ends :
              get_value(o.for_state[s], t) <= get_value(o.for_state[t], t) }

\* The functions optimize_for_samples can yield while the samples of
\* samples_to_functions are left.
AdmissibleFunctions(samples_to_functions) ==
    { f \in PotentialFunctions :
          \A t \in DOMAIN samples_to_functions :
              get_value(f, t) <= get_value(samples_to_functions[t], t) }

\* DiversePotentialHeuristics::DiversePotentialHeuristics.
DiversePotentialHeuristics(max_num_heuristics) ==
    [ pc                   |-> "find_functions",
      max_num_heuristics   |-> max_num_heuristics,
      diverse_functions    |-> << >>,
      samples_to_functions |-> << >>,
      unique_samples       |-> 0,      \* history: size of the filtered map
      removed              |-> << >> ] \* history: per iteration, the number of
                                       \* samples removed and whether the
                                       \* arbitrary function was used

\* filter_samples_and_compute_functions: the loop over the samples.
RECURSIVE filter_samples_and_compute_functions(_, _, _, _)
filter_samples_and_compute_functions(samples, optimizer, dead_ends, samples_to_functions) ==
    IF samples = << >> THEN samples_to_functions
    ELSE LET sample == Head(samples)
         IN IF sample \in DOMAIN samples_to_functions \/ sample \in dead_ends
            THEN filter_samples_and_compute_functions(
                     Tail(samples), optimizer, dead_ends, samples_to_functions)
            ELSE IF sample \notin optimizer.dead_ends
            THEN filter_samples_and_compute_functions(
                     Tail(samples), optimizer, dead_ends,
                     [s \in DOMAIN samples_to_functions \cup {sample} |->
                          IF s = sample THEN optimizer.for_state[sample]
                          ELSE samples_to_functions[s]])
            ELSE filter_samples_and_compute_functions(
                     Tail(samples), optimizer, dead_ends \cup {sample},
                     samples_to_functions)

\* remove_covered_samples: the samples on which the chosen function reaches
\* the value of the sample's own function are erased.
remove_covered_samples(chosen_function, samples_to_functions) ==
    [s \in {x \in DOMAIN samples_to_functions :
                get_value(chosen_function, x)
                    # get_value(samples_to_functions[x], x)} |->
         samples_to_functions[s]]

\* Faulty variant of find_function_and_remove_covered_samples: no sample is
\* erased when the function covers none.
find_function_only(samples_to_functions, function, begin) ==
    [ function |-> function,
      arbitrary |-> FALSE,
      samples_to_functions |->
          remove_covered_samples(function, samples_to_functions) ]

\* find_function_and_remove_covered_samples.  function is what
\* optimize_for_samples yields, begin the sample that begin() of the
\* unordered map points to.
find_function_and_remove_covered_samples(samples_to_functions, function, begin) ==
    LET last_num_samples == Cardinality(DOMAIN samples_to_functions)
        covered == remove_covered_samples(function, samples_to_functions)
    IN IF Cardinality(DOMAIN covered) = last_num_samples
       THEN LET precomputed == covered[begin]
                erased == [s \in DOMAIN covered \ {begin} |-> covered[s]]
            IN [ function |-> precomputed,
                 arbitrary |-> TRUE,
                 samples_to_functions |->
                     remove_covered_samples(precomputed, erased) ]
       ELSE [ function |-> function, arbitrary |-> FALSE,
              samples_to_functions |-> covered ]

InitPotentials ==
    /\ IdleEager
    /\ IdleOpenList
    /\ IdleWeighted
    /\ IdleIterated
    /\ IdleBind
    /\ \E m \in MaxNumHeuristics : dph = DiversePotentialHeuristics(m)

\* find_functions up to the call of cover_samples: the states are sampled
\* and filtered.
FilterSamples ==
    /\ dph.pc = "find_functions"
    /\ \E samples \in [1 .. NumSamples -> SampledStates], optimizer \in Optimizers :
          LET filtered == filter_samples_and_compute_functions(
                              samples, optimizer, {}, << >>)
          IN dph' = [dph EXCEPT
                        !.pc = "cover_samples",
                        !.samples_to_functions = filtered,
                        !.unique_samples = Cardinality(DOMAIN filtered)]
    /\ UNCHANGED <<eager_vars, ol_vars, we_vars, it_vars, bind_vars>>

\* One iteration of the loop of cover_samples.
CoverSamplesIteration ==
    /\ dph.pc = "cover_samples"
    /\ dph.samples_to_functions # << >>
    /\ Len(dph.diverse_functions) < dph.max_num_heuristics
    /\ \E function \in AdmissibleFunctions(dph.samples_to_functions),
          begin \in DOMAIN dph.samples_to_functions :
          LET found == find_function_and_remove_covered_samples(
                           dph.samples_to_functions, function, begin)
          IN dph' = [dph EXCEPT
                        !.diverse_functions = Append(@, found.function),
                        !.samples_to_functions = found.samples_to_functions,
                        !.removed = Append(@,
                            [samples |->
                                 Cardinality(DOMAIN dph.samples_to_functions)
                                 - Cardinality(DOMAIN found.samples_to_functions),
                             arbitrary |-> found.arbitrary])]
    /\ UNCHANGED <<eager_vars, ol_vars, we_vars, it_vars, bind_vars>>

\* The loop of cover_samples ends, and find_functions returns
\* diverse_functions.
CoverSamplesReturn ==
    /\ dph.pc = "cover_samples"
    /\ ~(/\ dph.samples_to_functions # << >>
         /\ Len(dph.diverse_functions) < dph.max_num_heuristics)
    /\ dph' = [dph EXCEPT !.pc = "done"]
    /\ UNCHANGED <<eager_vars, ol_vars, we_vars, it_vars, bind_vars>>

NextPotentials == FilterSamples \/ CoverSamplesIteration \/ CoverSamplesReturn

\* find_functions runs on: a step that can be taken is taken.
SpecPotentials ==
    InitPotentials /\ [][NextPotentials]_vars /\ WF_vars(NextPotentials)

(***************************************************************************)
(* Notions the properties are stated with.                                 *)
(***************************************************************************)
\* The states reachable from S in the task's transition graph.
RECURSIVE Reach(_)
Reach(S) ==
    LET N == S \cup {OpDst[op] : op \in {o \in task.ops : OpSrc[o] \in S}}
    IN IF N = S THEN S ELSE Reach(N)

\* The state an operator sequence leads to from s; no_state if some operator
\* of the sequence is not applicable where it is applied.
RECURSIVE Apply(_, _)
Apply(s, p) ==
    IF p = << >> THEN s
    ELSE IF s = no_state \/ Head(p) \notin task.ops \/ OpSrc[Head(p)] # s THEN no_state
    ELSE Apply(OpDst[Head(p)], Tail(p))

\* The cost of an operator sequence: the sum of the unadjusted operator costs.
RECURSIVE PlanCost(_)
PlanCost(p) == IF p = << >> THEN 0 ELSE task.cost[Head(p)] + PlanCost(Tail(p))

\* Cheapest cost to a goal from every state (INFTY: no goal reachable), for
\* the operator costs c, by |States| rounds of relaxation.
Relax(D, c) ==
    [s \in States |->
        Min({D[s]} \cup {c[op] + D[OpDst[op]] :
                op \in {o \in task.ops : OpSrc[o] = s /\ D[OpDst[o]] # INFTY}})]

RECURSIVE Iterate(_, _, _)
Iterate(D, c, k) == IF k = 0 THEN D ELSE Iterate(Relax(D, c), c, k - 1)

GoalDistance(c) ==
    Iterate([s \in States |-> IF s \in task.goal THEN 0 ELSE INFTY], c,
            Cardinality(States))

RealCosts == [op \in AllOps |-> task.cost[op]]
AdjustedCosts == [op \in AllOps |-> get_adjusted_cost(op)]

\* The heuristic never overestimates, neither the cheapest real cost nor the
\* cheapest adjusted cost to a goal, in its first or in its later estimates.
Admissible ==
    LET dr == GoalDistance(RealCosts)
        da == GoalDistance(AdjustedCosts)
    IN \A s \in States :
          /\ h0[s + 1] <= dr[s] /\ h1[s + 1] <= dr[s]
          /\ h0[s + 1] <= da[s] /\ h1[s + 1] <= da[s]

OptimalCost == GoalDistance(RealCosts)[initial_state]

(***************************************************************************)
(* C1.  Without reopening, every state is closed (expanded) at most once,  *)
(* so the number of expansions never exceeds the number of reachable       *)
(* states.                                                                 *)
(***************************************************************************)
C1_ExpandedAtMostOnce ==
    ~reopen_closed_nodes =>
        /\ \A s \in States : eng.closes[s] <= 1
        /\ eng.expanded <= Cardinality(Reach({initial_state}))

\* A cheaper path to a closed node was found in a run that does not reopen.
C1_Witness ==
    /\ ~reopen_closed_nodes
    /\ <<"update_parent", "closed">> \in eng.node_ops
    /\ eng.expanded >= 3

(***************************************************************************)
(* C2.  When step returns SOLVED, the plan traced along the parent         *)
(* pointers leads from the initial state to a goal state and its cost (sum *)
(* of unadjusted operator costs) is at most bound.                         *)
(***************************************************************************)
C2_PlanValidWithinBound ==
    search_status = "SOLVED" =>
        /\ Apply(initial_state, plan) \in task.goal
        /\ PlanCost(plan) <= bound

(***************************************************************************)
(* C3.  As claimed: with an admissible evaluator and reopening, the first  *)
(* plan returned is cost-optimal.                                          *)
(***************************************************************************)
C3_Original ==
    search_status = "SOLVED" /\ reopen_closed_nodes /\ Admissible =>
        PlanCost(plan) = OptimalCost

(***************************************************************************)
(* C3, amended.  With open-list key g + h for an admissible h, reopening,  *)
(* cost_type = normal, no operator pruned and an open list that is not     *)
(* preferred-only, the first plan returned is cost-optimal.                *)
(***************************************************************************)
C3_OptimalNormalCost ==
    search_status = "SOLVED" /\ reopen_closed_nodes /\ cost_type = "NORMAL"
        /\ ~pref_only /\ pruned = {} /\ Admissible =>
        /\ Apply(initial_state, plan) \in task.goal
        /\ PlanCost(plan) = OptimalCost

\* An optimal plan was returned by a run that had to reopen a closed node.
C3_Witness ==
    /\ search_status = "SOLVED" /\ reopen_closed_nodes /\ cost_type = "NORMAL"
    /\ ~pref_only /\ pruned = {} /\ Admissible
    /\ eng.reopened > 0
    /\ plan # << >>

(***************************************************************************)
(* C4.  As claimed: every node operation is applied in a status the node   *)
(* state machine allows, reopen to closed nodes only.                      *)
(***************************************************************************)
LegalAlways ==
    { <<"open_initial", "new">>, <<"open", "new">>, <<"close", "open">>,
      <<"mark_as_dead_end", "open">>, <<"mark_as_dead_end", "new">>,
      <<"update_parent", "open">> }

C4_Original ==
    eng.node_ops \subseteq
        LegalAlways \cup (IF reopen_closed_nodes
                          THEN {<<"reopen", "closed">>}
                          ELSE {<<"update_parent", "closed">>})

(***************************************************************************)
(* C4, amended.  Every node operation is one of: open_initial or open on a *)
(* new node, close on an open node, mark_as_dead_end on an open or new     *)
(* node, update_parent on an open node, update_parent on a closed node     *)
(* only without reopen_closed_nodes, and reopen on a closed or an open     *)
(* node only with reopen_closed_nodes.                                     *)
(***************************************************************************)
C4_LegalTransitions ==
    eng.node_ops \subseteq
        LegalAlways \cup (IF reopen_closed_nodes
                          THEN {<<"reopen", "closed">>, <<"reopen", "open">>}
                          ELSE {<<"update_parent", "closed">>})

\* A cheaper path to a node that was still open was found in a reopening run.
C4_Witness ==
    /\ reopen_closed_nodes
    /\ <<"reopen", "open">> \in eng.node_ops

(***************************************************************************)
(* C5.  Every closed node's g is the minimum of the g values offered to it *)
(* so far (by open_initial, open, or the comparison that precedes reopen   *)
(* and update_parent).                                                     *)
(***************************************************************************)
C5_ClosedHasMinOfferedG ==
    \A s \in States :
        eng.status[s] = "closed" => eng.g[s] = Min(eng.offers[s])

\* A node that was closed, offered a smaller g, and is closed with it.
C5_Witness ==
    \E s \in States :
        /\ eng.status[s] = "closed"
        /\ Cardinality(eng.offers[s]) >= 2
        /\ eng.g[s] < CHOOSE x \in eng.offers[s] : \A y \in eng.offers[s] : y <= x

(***************************************************************************)
(* C6.  As claimed: the g of a closed node changes only by a reopen that   *)
(* makes the node open.                                                    *)
(***************************************************************************)
C6_Original ==
    [][\A s \in States :
          eng.status[s] = "closed" /\ eng'.g[s] # eng.g[s] =>
              eng'.status[s] = "open"]_vars

(***************************************************************************)
(* C6, amended.  The g of a closed node changes only to a smaller value:   *)
(* with reopen_closed_nodes by a reopen that makes the node open, without  *)
(* it by an update_parent that leaves the node closed.                     *)
(***************************************************************************)
C6_ClosedGChange ==
    [][\A s \in States :
          eng.status[s] = "closed" /\ eng'.g[s] # eng.g[s] =>
              /\ eng'.g[s] < eng.g[s]
              /\ IF reopen_closed_nodes
                 THEN eng'.status[s] = "open"
                      /\ <<"reopen", "closed">> \in eng'.node_ops
                 ELSE eng'.status[s] = "closed"
                      /\ <<"update_parent", "closed">> \in eng'.node_ops]_vars

\* A closed node was reopened with a smaller g.
C6_Witness ==
    /\ reopen_closed_nodes
    /\ <<"reopen", "closed">> \in eng.node_ops
    /\ \E s \in States : eng.status[s] = "open" /\ eng.closes[s] > 0

(***************************************************************************)
(* C7.  As claimed: every entry remove_min returns belongs to a node that  *)
(* is open or closed at that moment.                                       *)
(***************************************************************************)
C7_Original ==
    \A p \in eng.popped : p[2] \in {"open", "closed"}

(***************************************************************************)
(* C7, amended.  Every entry remove_min returns belongs to a node that is  *)
(* open, closed or dead_end at that moment, never new, and dead_end only   *)
(* in a run with a lazy_evaluator.                                         *)
(***************************************************************************)
C7_PoppedNeverNew ==
    \A p \in eng.popped :
        /\ p[2] \in {"open", "closed", "dead_end"}
        /\ p[2] = "dead_end" => lazy_evaluator

\* An entry of a node that the lazy re-evaluation had marked dead_end was popped.
C7_Witness ==
    \E p \in eng.popped : p[2] = "dead_end"

(***************************************************************************)
(* C8.  At every expansion the preferred operators collected from the      *)
(* preferred-operator evaluators are among the applicable operators that   *)
(* remain after pruning.                                                   *)
(***************************************************************************)
C8_PreferredWithinPruned ==
    eng.last_preferred \subseteq eng.last_applicable

(***************************************************************************)
(* C9.  Every remove_min of a BestFirstOpenList returns an entry whose key *)
(* is the least key stored and, among the entries with that key, the one   *)
(* inserted first.                                                         *)
(***************************************************************************)
C9_RemoveMinIsFifoMin ==
    [][ol_last' = "remove_min"
         => ol_removed' = ol_shadow[FifoMinIndex(ol_shadow)]]_vars

\* remove_min has returned an entry while a later entry of the same key and
\* an earlier entry of a larger key stay in the list.
C9_Witness ==
    /\ ol_last = "remove_min"
    /\ \E i, j \in DOMAIN ol_shadow :
          /\ i < j
          /\ ol_shadow[i][1] > ol_removed[1]
          /\ ol_shadow[j][1] = ol_removed[1]
          /\ ol_shadow[j][2] # ol_removed[2]

(***************************************************************************)
(* C10.  compute_result yields w*v when the child's value v is not INFTY   *)
(* and INFTY otherwise, and no preferred operators.                        *)
(***************************************************************************)
\* r = w * v over the integers, for r, w and v that fit int.
IsProduct(r, w, v) ==
    IF w = 0 THEN r = 0
    ELSE IF v = INT_MIN \/ w = INT_MIN THEN FALSE
    ELSE IF w > 0 THEN r % w = 0 /\ r \div w = v
    ELSE r % (-w) = 0 /\ r \div (-w) = -v

\* w * v fits int: the product wrapped to 32 bits is the product.
ProductFits(w, v) == IsProduct(WrapMul(v, w), w, v)

YieldsWeighted ==
    /\ we_result.kind = "value"
    /\ we_result.preferred_operators = << >>
    /\ IF we_value # INFTY
       THEN IsProduct(we_result.value, we_weight, we_value)
       ELSE we_result.value = INFTY

\* The claim as stated, for every v and w.
C10_Original ==
    we_result # NoResult => YieldsWeighted

\* C10 as amended: compute_result yields w*v when v is not INFTY and w*v fits
\* a signed 32-bit int, INFTY when v is INFTY, and no preferred operators.
C10_WeightedWithinLimits ==
    (we_result # NoResult /\ (we_value = INFTY \/ ProductFits(we_weight, we_value)))
        => YieldsWeighted

\* A product near the limit of int has been returned.
C10_Witness ==
    /\ we_result # NoResult
    /\ we_result.kind = "value"
    /\ we_value = 1073741823
    /\ we_weight = 2
    /\ we_result.value = INT_MAX - 1

(***************************************************************************)
(* C11.  When the child's value v is finite and w*v does not fit a signed  *)
(* 32-bit int, compute_result fails fatally and returns no value.          *)
(***************************************************************************)
C11_OverflowIsFatal ==
    (we_result # NoResult /\ we_value # INFTY /\ ~ProductFits(we_weight, we_value))
        => we_result = Aborted

(***************************************************************************)
(* C16.  If the initial state is a goal state and no evaluation reports it *)
(* as a dead end, the first step returns SOLVED with the empty plan after  *)
(* exactly one expansion and no generated successor, whatever the bound.   *)
(***************************************************************************)
InitialGoalNotDeadEnd ==
    /\ initial_state \in task.goal
    /\ h0[initial_state + 1] # INFTY
    /\ lazy_evaluator => h1[initial_state + 1] # INFTY

C16_InitialGoalSolved ==
    /\ [](InitialGoalNotDeadEnd /\ pc = "searching" =>
              eng.expanded = 0 /\ search_status = "IN_PROGRESS")
    /\ [][InitialGoalNotDeadEnd /\ pc = "searching" =>
              /\ search_status' = "SOLVED"
              /\ plan' = << >>
              /\ eng'.expanded = 1
              /\ eng'.generated = 0
              /\ pc' = "done"]_vars

\* The first step has solved a task whose initial state is a goal, with bound 0.
C16_Witness ==
    /\ InitialGoalNotDeadEnd
    /\ bound = 0
    /\ pc = "done"
    /\ search_status = "SOLVED"
    /\ eng.expanded = 1

(***************************************************************************)
(* C17.  If the open list reports the initial state as a dead end,         *)
(* initialize leaves the initial node new and the open list empty, and the *)
(* first step returns FAILED with no expansion.                            *)
(***************************************************************************)
InitialDeadEnd == h0[initial_state + 1] = INFTY

C17_InitialDeadEndFails ==
    /\ [](InitialDeadEnd /\ pc \in {"searching", "done"} =>
              /\ eng.status[initial_state] = "new"
              /\ empty(eng) /\ eng.buckets = << >>
              /\ eng.expanded = 0
              /\ search_status = IF pc = "done" THEN "FAILED" ELSE "IN_PROGRESS")
    /\ [][InitialDeadEnd /\ pc = "searching" =>
              search_status' = "FAILED" /\ pc' = "done"]_vars

\* The first step of a run whose initial state is a dead end has returned.
C17_Witness ==
    /\ InitialDeadEnd
    /\ pc = "done"
    /\ search_status = "FAILED"
    /\ eng.evaluated_states = 1

(***************************************************************************)
(* C18.  Constructing EagerSearch with a lazy_evaluator that does not      *)
(* cache its estimates exits with SEARCH_INPUT_ERROR before initialize or  *)
(* step run; otherwise construction succeeds.                              *)
(***************************************************************************)
C18_NonCachingLazyIsFatal ==
    IF lazy_evaluator /\ ~does_cache_estimates
    THEN pc = "SEARCH_INPUT_ERROR" /\ eng = NewEngine /\ search_status = "IN_PROGRESS"
    ELSE pc \in {"constructed", "searching", "done"}

\* The constructor has rejected a lazy_evaluator that does not cache.
C18_Witness ==
    /\ lazy_evaluator /\ ~does_cache_estimates
    /\ pc = "SEARCH_INPUT_ERROR"

(***************************************************************************)
(* C19.  As claimed: in the reopening scenario (a node closed at g = 10,   *)
(* then found at cost 7) the returned plan costs 7 plus the last operator  *)
(* with reopening, and 10 plus the last operator without.                  *)
(***************************************************************************)
ReopenScenario == task = ReopenTask /\ h0 = ReopenEstimates

C19_Original ==
    ReopenScenario /\ search_status = "SOLVED" =>
        PlanCost(plan) = (IF reopen_closed_nodes THEN 7 ELSE 10) + task.cost[6]

(***************************************************************************)
(* C19, amended.  In the reopening scenario the returned plan goes through *)
(* the cost-7 path for both values of reopen_closed_nodes; without         *)
(* reopening only the g of the goal node stays at 10 plus the last         *)
(* operator.                                                               *)
(***************************************************************************)
C19_PlanThroughCheaperPath ==
    ReopenScenario /\ search_status = "SOLVED" =>
        /\ plan = <<1, 7, 6>>
        /\ PlanCost(plan) = 7 + task.cost[6]
        /\ eng.g[5] = (IF reopen_closed_nodes THEN 7 ELSE 10) + task.cost[6]

\* A run without reopening has closed state 4 at g = 10, then found it at 7,
\* and has returned its plan.
C19_Witness ==
    /\ ReopenScenario /\ search_status = "SOLVED"
    /\ ~reopen_closed_nodes
    /\ eng.closes[4] = 1
    /\ eng.offers[4] = {7, 10}

(***************************************************************************)
(* C20.  dead_end is terminal: a dead_end node keeps its status, is not    *)
(* closed, offered a g, re-evaluated or inserted again; a new successor    *)
(* that is a dead end is marked, counted and not inserted; and the search  *)
(* still solves the task through states that are no dead ends.             *)
(***************************************************************************)
\* The number of entries the open list holds for state s.
EntriesOf(e, s) ==
    Cardinality({p \in UNION {{<<k, i>> : i \in DOMAIN e.buckets[k]} :
                                 k \in DOMAIN e.buckets} :
                    e.buckets[p[1]][p[2]] = s})

\* The states reachable through operators of the task whose source is never
\* reported as a dead end.
RECURSIVE LiveReach(_)
LiveReach(S) ==
    LET live == {s \in S : h0[s + 1] # INFTY /\ h1[s + 1] # INFTY}
        N == S \cup {OpDst[o] : o \in {x \in task.ops : OpSrc[x] \in live}}
    IN IF N = S THEN live ELSE LiveReach(N)

C20_DeadEndTerminal ==
    /\ [](eng.dead_ends = Cardinality({s \in States : eng.status[s] = "dead_end"}))
    /\ [][\A s \in States :
            /\ eng.status[s] = "dead_end" =>
                  /\ eng'.status[s] = "dead_end"
                  /\ eng'.closes[s] = eng.closes[s]
                  /\ eng'.offers[s] = eng.offers[s]
                  /\ eng'.h_cache[s] = eng.h_cache[s]
                  /\ EntriesOf(eng', s) <= EntriesOf(eng, s)
            /\ eng.status[s] = "new" /\ eng'.status[s] = "dead_end" =>
                  /\ EntriesOf(eng', s) = 0
                  /\ eng'.dead_ends > eng.dead_ends]_vars
    /\ [](pc = "done" /\ bound = INT_MAX /\ ~pref_only /\ pruned = {}
             /\ LiveReach({initial_state}) \cap task.goal # {}
          => search_status = "SOLVED" /\ Apply(initial_state, plan) \in task.goal)

\* A task was solved although a successor had been marked dead_end.
C20_Witness ==
    /\ search_status = "SOLVED"
    /\ plan # << >>
    /\ \E s \in States : eng.status[s] = "dead_end" /\ EntriesOf(eng, s) = 0

(***************************************************************************)
(* C12.  After a child phase has run, IteratedSearch::step returns         *)
(* IN_PROGRESS if the phase found a solution and continue_on_solve, SOLVED *)
(* if it found one and not continue_on_solve, IN_PROGRESS if it found none *)
(* and continue_on_fail, and otherwise SOLVED if an earlier phase found a  *)
(* solution, else FAILED.                                                  *)
(***************************************************************************)
C12_StepReturnValue ==
    [][it_pc = "child" /\ it_pc' = "ready" =>
          it'.status =
              IF search_status = "SOLVED"
              THEN (IF continue_on_solve THEN "IN_PROGRESS" ELSE "SOLVED")
              ELSE IF continue_on_fail THEN "IN_PROGRESS"
              ELSE IF it.iterated_found_solution THEN "SOLVED"
              ELSE "FAILED"]_vars

\* A phase that found no solution has ended the search with SOLVED, because an
\* earlier phase had found one.
C12_Witness ==
    /\ it_pc = "ready"
    /\ it.status = "SOLVED"
    /\ ~continue_on_fail
    /\ search_status = "FAILED"
    /\ it.phase >= 2
    /\ it.iterated_found_solution /\ ~it.last_phase_found_solution

(***************************************************************************)
(* C13.  A step entered with phase >= number of engine_configs runs the    *)
(* last engine config again if repeat_last_phase and the last phase found  *)
(* a solution; otherwise it runs no child and returns SOLVED if any phase  *)
(* ever found a solution, else FAILED, whatever continue_on_fail is.       *)
(***************************************************************************)
C13_StepPastLastPhase ==
    [][it_pc = "ready" /\ it.status = "IN_PROGRESS"
          /\ it.phase >= Len(engine_configs) /\ it' # it =>
          IF repeat_last_phase /\ it.last_phase_found_solution
          THEN LET last == engine_configs[Len(engine_configs)]
               IN /\ it_pc' = "child"
                  /\ pc' = "constructed" /\ eng' = NewEngine
                  /\ h0' = last.h0 /\ cost_type' = last.cost_type
                  /\ reopen_closed_nodes' = last.reopen
          ELSE /\ it_pc' = "ready"
               /\ UNCHANGED eager_vars
               /\ it'.status = IF it.iterated_found_solution THEN "SOLVED"
                               ELSE "FAILED"]_vars

(***************************************************************************)
(* C14.  best_bound never increases; best_bound, the saved plans and the   *)
(* engine's plan change only when a child phase has found a plan of cost   *)
(* less than best_bound, and then the plan is saved, best_bound becomes    *)
(* its cost and it becomes the engine's plan.                              *)
(***************************************************************************)
C14_BestBoundDecreases ==
    [][it_pc # "none" =>
          LET better == /\ it_pc = "child" /\ it_pc' = "ready"
                        /\ search_status = "SOLVED"
                        /\ PlanCost(plan) < it.best_bound
          IN /\ it'.best_bound <= it.best_bound
             /\ IF better
                THEN /\ it'.best_bound = PlanCost(plan)
                     /\ it'.plan = plan
                     /\ it'.saved_plans = Append(it.saved_plans, plan)
                ELSE /\ it'.best_bound = it.best_bound
                     /\ it'.plan = it.plan
                     /\ it'.saved_plans = it.saved_plans]_vars

\* A second, better plan has been adopted, and a later plan that is not
\* better has been dropped.
C14_Witness ==
    /\ Len(it.saved_plans) >= 2
    /\ it_pc = "ready"
    /\ search_status = "SOLVED"
    /\ it.last_phase_found_solution
    /\ it.phase = 3
    /\ PlanCost(plan) >= it.best_bound

(***************************************************************************)
(* C15.  With pass_bound, a child phase runs with bound = best_bound, and  *)
(* a plan it returns costs at most that bound.                             *)
(***************************************************************************)
C15_ChildWithinPassedBound ==
    pass_bound /\ it_pc = "child" =>
        /\ bound = it.best_bound
        /\ search_status = "SOLVED" => PlanCost(plan) <= bound

(***************************************************************************)
(* C29.  The node handed to close() is never a dead end; without a         *)
(* lazy_evaluator no dead_end node has an entry in the open list, and with *)
(* one the entries of dead_end nodes are popped and skipped.               *)
(***************************************************************************)
C29_DeadEndNeverClosed ==
    /\ <<"close", "dead_end">> \notin eng.node_ops
    /\ ~lazy_evaluator =>
          \A s \in States : eng.status[s] = "dead_end" => EntriesOf(eng, s) = 0

\* With a lazy_evaluator, the entry of a dead_end node was popped and skipped.
C29_Witness ==
    /\ lazy_evaluator
    /\ \E s \in States : <<s, "dead_end">> \in eng.popped

(***************************************************************************)
(* C30.  The parent pointers of the open and closed nodes form a forest    *)
(* rooted at the initial node: the initial node has no parent, and from    *)
(* every other open or closed node the parent pointers lead to the initial *)
(* node without a cycle, each node on the way created by an operator of    *)
(* the task that leads from its parent to it.                              *)
(***************************************************************************)
\* The nodes met when following parent_state_id from s, s included, for at
\* most fuel pointers.
RECURSIVE Ancestors(_, _, _)
Ancestors(e, s, fuel) ==
    IF s = no_state THEN << >>
    ELSE IF fuel = 0 THEN <<s>>
    ELSE <<s>> \o Ancestors(e, e.parent_state_id[s], fuel - 1)

C30_ParentForest ==
    \A s \in States : eng.status[s] \in {"open", "closed"} =>
        LET a == Ancestors(eng, s, Cardinality(States))
        IN /\ a[Len(a)] = initial_state
           /\ \A i, j \in DOMAIN a : i # j => a[i] # a[j]
           /\ eng.parent_state_id[initial_state] = no_state
           /\ \A i \in 1 .. Len(a) - 1 :
                 /\ eng.creating_operator[a[i]] \in task.ops
                 /\ OpSrc[eng.creating_operator[a[i]]] = a[i + 1]
                 /\ OpDst[eng.creating_operator[a[i]]] = a[i]

\* On a task whose graph leads back to the initial state, the initial node has
\* been offered a g over the cycle, and the step has rewritten a node's parent.
C30_Witness ==
    /\ Cardinality(eng.offers[initial_state]) >= 2
    /\ \E st \in {"open", "closed"} :
          <<"reopen", st>> \in eng.node_ops \/ <<"update_parent", st>> \in eng.node_ops

(***************************************************************************)
(* C26.  In the expansion of a node, exactly the applicable operators with *)
(* real_g + cost >= bound (the unadjusted cost, whatever the cost_type)    *)
(* are skipped: they count as no generated state, and a state only they    *)
(* lead to is neither evaluated nor linked nor offered a g; and every open *)
(* or closed node other than the initial node has real_g < bound.          *)
(***************************************************************************)
C26_BoundTest ==
    /\ [](\A s \in States \ {initial_state} :
             eng.status[s] \in {"open", "closed"} =>
                 eng.real_g[s] >= 0 /\ eng.real_g[s] < bound)
    /\ [][pc = "searching" /\ pc' = "searching" =>
             \E n \in States :
                /\ eng'.closes[n] = eng.closes[n] + 1
                /\ LET passed == {op \in eng'.last_applicable :
                                     eng.real_g[n] + task.cost[op] < bound}
                       untouched == {s \in States : \A op \in passed : OpDst[op] # s}
                   IN /\ eng'.last_generated = passed
                      /\ eng'.generated = eng.generated + Cardinality(passed)
                      /\ eng'.evaluated_states <= eng.evaluated_states + Cardinality(passed)
                      /\ \A s \in untouched :
                            /\ eng'.g[s] = eng.g[s]
                            /\ eng'.real_g[s] = eng.real_g[s]
                            /\ eng'.parent_state_id[s] = eng.parent_state_id[s]
                            /\ eng'.creating_operator[s] = eng.creating_operator[s]
                            /\ eng'.offers[s] = eng.offers[s]
                            /\ eng.status[s] = "new" => eng'.status[s] = "new"]_vars

\* With cost_type ONE, an expansion has skipped an operator that the adjusted
\* cost would have let pass, and has generated another.
C26_Witness ==
    /\ cost_type = "ONE"
    /\ pc = "searching"
    /\ eng.last_generated # {}
    /\ \E op \in eng.last_applicable \ eng.last_generated :
          /\ eng.g[OpSrc[op]] + get_adjusted_cost(op) < bound
          /\ eng.status[OpDst[op]] = "new"

(***************************************************************************)
(* C27.  With a lazy_evaluator, a popped open node whose estimate is       *)
(* cached is re-evaluated: if the open list reports a dead end the node is *)
(* marked dead_end, counted as a dead end and not expanded; else if the    *)
(* new value differs from the cached one the state is back in the open     *)
(* list under its new key and the node stays open, neither closed nor      *)
(* counted as expanded; only if the value is unchanged is the node closed  *)
(* and expanded.                                                           *)
(***************************************************************************)
\* State s has an entry under key k in the open list.
HasEntry(e, s, k) ==
    k \in DOMAIN e.buckets /\ \E i \in DOMAIN e.buckets[k] : e.buckets[k][i] = s

\* The pops of the last step that re-evaluated a cached estimate.
Reevaluated(e) ==
    {i \in DOMAIN e.pops : e.pops[i].old_h # NO_VALUE}

LazyReevaluationStep ==
          LET ps == eng'.pops
              later(i, s) == \E j \in DOMAIN ps : j > i /\ ps[j].id = s
              marked == {s \in States : eng.status[s] = "new"
                                           /\ eng'.status[s] = "dead_end"}
          IN /\ \A i \in DOMAIN ps :
                   lazy_evaluator /\ ps[i].status = "open" => i \in Reevaluated(eng')
             /\ \A i \in Reevaluated(eng') :
                   LET s == ps[i].id
                   IN IF ps[i].new_h = INFTY
                      THEN /\ ps[i].branch = "dead_end"
                           /\ eng'.status[s] = "dead_end"
                           /\ eng'.closes[s] = eng.closes[s]
                      ELSE IF ps[i].new_h # ps[i].old_h
                      THEN /\ ps[i].branch = "insert"
                           /\ ~later(i, s) =>
                                 /\ HasEntry(eng', s, ps[i].g + ps[i].new_h)
                                 /\ eng'.status[s] = "open"
                                 /\ eng'.closes[s] = eng.closes[s]
                      ELSE /\ ps[i].branch = "close"
                           /\ i = Len(ps)
                           /\ eng'.closes[s] = eng.closes[s] + 1
             /\ eng'.dead_ends = eng.dead_ends + Cardinality(marked)
                   + Cardinality({i \in DOMAIN ps : ps[i].branch = "dead_end"})
             /\ eng'.expanded = eng.expanded
                   + Cardinality({i \in DOMAIN ps : ps[i].branch = "close"})

C27_LazyReevaluation ==
    [][pc = "searching" => LazyReevaluationStep]_vars

(***************************************************************************)
(* C28.  Every path-dependent evaluator reachable from the open list, a    *)
(* preferred-operator evaluator, the f_evaluator or the lazy_evaluator is  *)
(* held exactly once in path_dependent_evaluators, has received            *)
(* notify_initial_state exactly once and notify_state_transition once per  *)
(* generated successor, so exactly as often as the generated-states count  *)
(* says; no other evaluator is held or notified.                           *)
(***************************************************************************)
\* Evaluator b is evaluator a or is reached from it through child links.
RECURSIVE ReachesEvaluator(_, _)
ReachesEvaluator(a, b) ==
    /\ a # no_evaluator
    /\ \/ a = b
       \/ ReachesEvaluator(WeightedChild[a], b)

\* Through how many of the engine's evaluator slots evaluator ev is reached.
TimesReachable(ev) ==
    Cardinality({i \in DOMAIN evaluator_sources :
                    ReachesEvaluator(evaluator_sources[i], ev)})

C28_PathDependentNotified ==
    \A ev \in Evaluators :
        LET held == Cardinality({i \in DOMAIN eng.path_dependent_evaluators :
                                    eng.path_dependent_evaluators[i] = ev})
            due  == ev \in PathDependent /\ TimesReachable(ev) >= 1
        IN IF pc \in {"searching", "done"} /\ due
           THEN /\ held = 1
                /\ eng.notified_initial[ev] = 1
                /\ eng.notified_transition[ev] = eng.generated
           ELSE /\ held = 0
                /\ eng.notified_initial[ev] = 0
                /\ eng.notified_transition[ev] = 0

\* An evaluator reached in several ways has been notified of a successor
\* that was a dead end already.
C28_Witness ==
    /\ \E ev \in PathDependent :
          TimesReachable(ev) >= 2 /\ eng.notified_transition[ev] >= 2
    /\ \E op \in eng.last_generated : eng.status[OpDst[op]] = "dead_end"
    /\ \A st \in {"new", "open"} : <<"mark_as_dead_end", st>> \notin eng.node_ops

(***************************************************************************)
(* C25.  With a consistent evaluator that never lowers a value on          *)
(* re-evaluation, the keys of successive remove_min results of the         *)
(* engine's open list are non-decreasing as long as no node has been       *)
(* reopened or given a new parent by update_parent.  (As stated, for every *)
(* evaluator and with only the reopened nodes excluded: C25_Original.)     *)
(***************************************************************************)
\* The keys of the entries the step has removed do not decrease, the first of
\* them is not below the last key the step before has removed.
KeysNonDecreasing ==
    LET ps == eng'.pops
    IN /\ \A i \in 1 .. Len(ps) - 1 : ps[i].key <= ps[i + 1].key
       /\ ps # << >> /\ eng.pops # << >> => eng.pops[Len(eng.pops)].key <= ps[1].key

\* h(s) <= adjusted cost + h(succ) over every operator, for each value the
\* evaluator reports for s, and no estimate is lowered by the re-evaluation.
Consistent ==
    /\ \A op \in task.ops :
          LET s == OpSrc[op]
              succ == OpDst[op]
          IN h0[s + 1] # INFTY /\ h1[s + 1] # INFTY /\ h0[succ + 1] # INFTY =>
                /\ h0[s + 1] <= get_adjusted_cost(op) + h0[succ + 1]
                /\ h1[s + 1] <= get_adjusted_cost(op) + h0[succ + 1]
    /\ \A s \in States : h0[s + 1] <= h1[s + 1]

C25_Original ==
    [][pc = "searching" /\ "reopen" \notin eng.relinked => KeysNonDecreasing]_vars

C25_KeysNonDecreasing ==
    [][pc = "searching" /\ Consistent /\ eng.relinked = {} => KeysNonDecreasing]_vars

\* A run with a consistent evaluator in which nothing was relinked has removed
\* entries of three different keys, two of them in the last step, where the
\* first was re-inserted after its re-evaluation.
C25_Witness ==
    /\ Consistent
    /\ eng.relinked = {}
    /\ eng.expanded >= 2
    /\ Len(eng.pops) >= 2
    /\ eng.pops[1].branch = "insert"
    /\ eng.pops[1].key < eng.pops[Len(eng.pops)].key

(***************************************************************************)
(* C24.  Every step returns FAILED, SOLVED or IN_PROGRESS, and the steps   *)
(* of a constructed engine eventually return SOLVED or FAILED, with and    *)
(* without reopening, with and without a lazy_evaluator.                   *)
(***************************************************************************)
C24_Terminates ==
    /\ [](search_status \in {"FAILED", "SOLVED", "IN_PROGRESS"})
    /\ (pc = "constructed") ~> (pc = "done" /\ search_status \in {"FAILED", "SOLVED"})

\* A search with a lazy_evaluator that reopens has ended after it had
\* reopened a closed node and re-inserted a state whose estimate had changed.
C24_Witness ==
    /\ pc = "done"
    /\ lazy_evaluator /\ reopen_closed_nodes
    /\ eng.reopened >= 1
    /\ \E s \in States :
          /\ eng.status[s] = "closed"
          /\ eng.h_cache[s] \notin {NO_VALUE, h0[s + 1]}


\* The key of the ComponentMap entry a binding call reads and writes.
KeyOf(call) ==
    IF call.blueprint \in {"eager", "iterated"}
    THEN <<call.task, call.blueprint>>
    ELSE <<call.blueprint>>

SameNode(i, j) ==
    /\ bindings[i].map = bindings[j].map
    /\ bindings[i].blueprint = bindings[j].blueprint

BuiltFor(m, blueprint, tsk) ==
    {c \in DOMAIN components : /\ components[c].map = m
                               /\ components[c].blueprint = blueprint
                               /\ components[c].task = tsk}

C22_TaskLocal ==
    /\ \A i, j \in DOMAIN bindings :
           /\ bindings[i].blueprint = bindings[j].blueprint
           /\ bindings[i].task # bindings[j].task
           => bindings[i].result # bindings[j].result
    /\ \A i \in DOMAIN bindings :
           components[bindings[i].result].task = bindings[i].task

LastCall == bindings'[Len(bindings')]

Rebinding ==
    \E i \in DOMAIN bindings : /\ bindings[i].map = LastCall.map
                               /\ bindings[i].blueprint = LastCall.blueprint
                               /\ bindings[i].task = LastCall.task

Rewritten == {s \in States : eng.status[s] # "new" /\ eng'.g[s] # eng.g[s]}

\* C31: with reopen_closed_nodes = false a cheaper path to an open or closed
\* node leads to update_parent only: the node keeps its status, gets no
\* further entry in the open list, no node operation of the step is a reopen
\* and the reopened counter stays; and in both modes the g of a node that is
\* no longer new is rewritten to strictly smaller values only.
C31_UpdateParentOnly ==
    [][ /\ \A s \in States : eng.status[s] # "new" => eng'.g[s] <= eng.g[s]
        /\ ~reopen_closed_nodes =>
               /\ eng'.reopened = eng.reopened
               /\ \A st \in {"new", "open", "closed", "dead_end"} :
                      <<"reopen", st>> \notin eng'.node_ops
               /\ \A s \in Rewritten :
                      /\ eng'.status[s] = eng.status[s]
                      /\ EntriesOf(eng', s) <= EntriesOf(eng, s)
                      /\ \E st \in {"open", "closed"} :
                             <<"update_parent", st>> \in eng'.node_ops ]_vars

\* Reached: without reopening, update_parent has lowered the g of a closed
\* node, which is still closed and has no entry in the open list.
C31_Witness ==
    /\ ~reopen_closed_nodes
    /\ <<"update_parent", "closed">> \in eng.node_ops
    /\ \E s \in States : /\ eng.status[s] = "closed"
                         /\ Cardinality(eng.offers[s]) >= 2
                         /\ EntriesOf(eng, s) = 0

(***************************************************************************)
(* C32.  Termination of the iterated search.                               *)
(***************************************************************************)
IteratedDone == it.status \in {"SOLVED", "FAILED"}

\* The last phase is about to be repeated after a phase that found a
\* solution.
StillRepeating ==
    /\ it_pc = "ready"
    /\ it.status = "IN_PROGRESS"
    /\ it.phase >= Len(engine_configs)
    /\ repeat_last_phase
    /\ continue_on_solve
    /\ it.last_phase_found_solution

\* C32 as stated: for every combination of the options, the steps of the
\* iterated search eventually return SOLVED or FAILED.
C32_Original == <>IteratedDone

\* C32, amended: the steps of the iterated search eventually return SOLVED or
\* FAILED, unless repeat_last_phase and continue_on_solve are both set and
\* every repetition of the last phase finds a solution.
C32_TerminatesUnlessRepeating == <>IteratedDone \/ []<>StillRepeating

\* Reached: with repeat_last_phase and continue_on_solve the last phase was
\* repeated, a repetition found no solution, and the iterated search ended.
C32_Witness ==
    /\ IteratedDone
    /\ repeat_last_phase
    /\ continue_on_solve
    /\ it.phase > Len(engine_configs)
    /\ ~it.last_phase_found_solution

(***************************************************************************)
(* C33.  What the iterated search holds when it reports SOLVED.            *)
(***************************************************************************)
\* C33: iterated_found_solution is true iff a completed phase has found a
\* solution, and an iterated search that reports SOLVED holds a plan whose
\* cost is best_bound and is the least cost of the plans its phases found.
C33_SolvedHoldsBestPlan ==
    /\ it_pc \in {"ready", "child"} =>
           (it.iterated_found_solution <=> it.found_costs # {})
    /\ it_pc = "ready" /\ it.status = "SOLVED" =>
           /\ found_solution(it)
           /\ calculate_plan_cost(it.plan) = it.best_bound
           /\ \A c \in it.found_costs : it.best_bound <= c
           /\ it.best_bound \in it.found_costs

(***************************************************************************)
(* C34.  Evaluators reused in several phases of an iterated search.        *)
(***************************************************************************)
\* The engines of the phases of the iterated search c.
PhasesOf(c) == {components[c].children[k] : k \in DOMAIN components[c].children}

\* C34: the engines of the phases of one iterated search, made from a
\* blueprint with predefined evaluators, share their concrete evaluators: the
\* preferred operator evaluators, the open list factory, the f evaluator and
\* the lazy evaluator of any two phases are the same instances.
C34_PhasesShareEvaluators ==
    \A c \in DOMAIN components :
        components[c].blueprint = "iterated" =>
            \A p, q \in PhasesOf(c) :
                components[p].children = components[q].children

(***************************************************************************)
(* C35.  The open list between the steps of the search.                    *)
(***************************************************************************)
RECURSIVE TotalEntries(_, _)
TotalEntries(e, keys) ==
    IF keys = {} THEN 0
    ELSE LET k == CHOOSE x \in keys : TRUE
         IN Len(e.buckets[k]) + TotalEntries(e, keys \ {k})

\* C35: with an open list that accepts every entry, every open node has an
\* entry in the open list between the steps of the search; the size counter
\* is the number of entries in the buckets, no bucket is empty, and empty()
\* holds exactly when no entry is stored.
C35_OpenNodesHaveEntries ==
    /\ ~pref_only =>
           \A s \in States : eng.status[s] = "open" => EntriesOf(eng, s) >= 1
    /\ eng.size = TotalEntries(eng, DOMAIN eng.buckets)
    /\ \A k \in DOMAIN eng.buckets : eng.buckets[k] # << >>
    /\ empty(eng) <=> \A s \in States : EntriesOf(eng, s) = 0

\* Reached: reopen has been called, an open node has two entries, and an
\* entry of a closed node is still stored.
C35_Witness ==
    /\ ~pref_only
    /\ eng.size >= 2
    /\ "reopen" \in eng.relinked
    /\ \E s \in States : eng.status[s] = "open" /\ EntriesOf(eng, s) >= 2
    /\ \E s \in States : eng.status[s] = "closed" /\ EntriesOf(eng, s) >= 1

(***************************************************************************)
(* C36.  cover_samples terminates.                                         *)
(***************************************************************************)
\* C36: cover_samples ends for every input; every iteration of its loop
\* removes at least one sample; when the loop has ended, no sample is left
\* or max_num_heuristics functions have been chosen; and the functions
\* chosen are never more than max_num_heuristics nor more than the unique
\* samples that are no dead ends.
C36_CoverSamplesTerminates ==
    /\ <>(dph.pc = "done")
    /\ [](/\ \A k \in DOMAIN dph.removed : dph.removed[k].samples >= 1
          /\ Len(dph.removed) = Len(dph.diverse_functions)
          /\ Len(dph.diverse_functions) <= dph.max_num_heuristics
          /\ Len(dph.diverse_functions) <= dph.unique_samples
          /\ dph.pc = "done" =>
                 \/ dph.samples_to_functions = << >>
                 \/ Len(dph.diverse_functions) = dph.max_num_heuristics)

\* Reached: cover_samples has ended after two iterations, one of which found
\* no covered sample and used the function of an arbitrary sample.
C36_Witness ==
    /\ dph.pc = "done"
    /\ Len(dph.diverse_functions) >= 2
    /\ \E k \in DOMAIN dph.removed : dph.removed[k].arbitrary

====
